---- MODULE Spec2Model ----
(***************************************************************************)
(* Model of the brain-api server: the transfer sweep, the career-completion *)
(* transaction, the coaching squads (Postgres backend) and the matchday     *)
(* simulator.  Postgres is modelled at READ COMMITTED: a transaction's      *)
(* writes become visible at COMMIT, row locks (SELECT ... FOR UPDATE and    *)
(* UPDATE) are held until the transaction ends.                             *)
(***************************************************************************)
EXTENDS Integers, Sequences, FiniteSets, TLC

\* ------------------------------------------------------------------ bounds

MaxTick == 2
TicksPerDay == 2
StartDay == 3
MaxCalls == 2
MaxRequests == 2
MaxFails == 1
MaxRuns == 1
MaxCoaches == 150
MaxBoardCalls == 1
MaxDrawnDays == 2

\* --------------------------------------------------------------- constants

MS_PER_DAY == 86400000
PREMIER_COMPLETION_RATING == 86
MATCHES_PER_MD == 12
TOTAL_MATCHDAYS == 46
NUM_CLUBS == 24
RETRIES == 3
TOP_N == 100
HMAC_MAX_AGE_MS == 300000
INVITE_ATTEMPTS == 20

NoTx == "none"

Players == {"p1", "p2"}
Users == {"u1", "u2"}
Squads == {"s1", "s2"}
Leagues == {"league_two", "league_one", "championship"}
Sweepers == {"w1", "w2"}
Callers == {"c1", "c2"}
Invokers == {"i1", "i2"}
\* the ids of the tier's clubs in localeCompare order
ClubIds == [i \in 1..NUM_CLUBS |-> i]

PROMOTION_THRESHOLDS ==
  [league_two |-> 70, league_one |-> 78, championship |-> PREMIER_COMPLETION_RATING]

LEAGUE_NEXT == [league_two |-> "league_one", league_one |-> "championship"]

FACILITY_BASE_COSTS ==
  [training_equipment |-> 5, spa |-> 8, analysis_room |-> 6, medical_center |-> 7]

FACILITY_TYPES == DOMAIN FACILITY_BASE_COSTS

\* ------------------------------------------------------------------- state

VARIABLES
  db,        \* the committed Postgres tables
  locks,     \* row locks: set of <<row key, holder>>
  advisory,  \* holder of pg_advisory_xact_lock(SWEEP_ADVISORY_LOCK), or NoTx
  tick,      \* wall clock, in ticks of MS_PER_DAY \div TicksPerDay
  sw,        \* per sweep invocation: position and locals of runTransferSweep
  cl,        \* per HTTP request handler: position and locals of the operation
  db0,       \* the tables as they were when the run started (history)
  seasons,     \* Season entities of the simulated tier; the id is the index
  progs,       \* SeasonProgress entities
  fixtures,    \* Fixture entities
  teamSeasons, \* TeamSeason entities
  sim,         \* per simulate-day invocation: position and locals of simulateDayCore
  fails,       \* writes that have failed for good so far
  env,         \* the environment variables the processes were started with
  store,       \* the in-memory data store (data-store.js): groups and their members
  SEASON       \* the in-memory season of the three EFL leagues (simulateDayCore.jsx)

\* no operation on the database or on the entities writes the environment or
\* the in-memory modules: they are part of what either group of operations
\* leaves alone
simVars == <<seasons, progs, fixtures, teamSeasons, sim, fails, env, store, SEASON>>

appVars == <<db, locks, advisory, tick, sw, cl, db0, env, store, SEASON>>

vars == <<db, locks, advisory, tick, sw, cl, db0, simVars>>

\* ----------------------------------------------------------------- helpers

nowMs == StartDay * MS_PER_DAY + tick * (MS_PER_DAY \div TicksPerDay)

utcDayNumber(ms) == ms \div MS_PER_DAY

\* Math.ceil(a / b) for b > 0
CeilDiv(a, b) == -((-a) \div b)

Min2(a, b) == IF a <= b THEN a ELSE b

Some(v) == <<v>>
None == <<>>
IsNull(o) == o = <<>>
Val(o) == o[1]

\* ids in the order ORDER BY id returns them
PlayerIds == <<"p1", "p2">>

RECURSIVE Dedup(_)
Dedup(s) ==
  IF s = <<>> THEN <<>>
  ELSE LET r == Dedup(SubSeq(s, 1, Len(s) - 1))
           x == s[Len(s)]
       IN IF \E i \in 1..Len(r) : r[i] = x THEN r ELSE Append(r, x)

Range(s) == {s[i] : i \in 1..Len(s)}

\* ------------------------------------------------------- db.js (part_005)

\* withTransaction without the ROLLBACK in the catch block
withTransactionNoRollback(before, out) == out.db

\* withTransaction: COMMIT publishes the callback's writes, a throw rolls
\* every one of them back.
withTransaction(before, out) == IF out.threw THEN before ELSE out.db

\* A row lock (FOR UPDATE / UPDATE) is granted when no other transaction
\* holds the row.
LockFree(key, t) == \A l \in locks : l[1] = key => l[2] = t

HeldBy(t) == {l \in locks : l[2] = t}

\* pg_advisory_xact_lock blocks until no other session holds the key
AdvisoryFree(t) == advisory \in {NoTx, t}

\* ------------------------------------------- player-careers.js (part_003)

\* Math.ceil((nowMs - startedMs) / 86400000) || 1
DaysToPremier(ms, startedMs) ==
  LET c == CeilDiv(ms - startedMs, MS_PER_DAY) IN IF c = 0 THEN 1 ELSE c

\* player-careers.js: Math.ceil((nowMs - startMs) / 86400000)
daysToPremierInMemory(ms, startedMs) == CeilDiv(ms - startedMs, MS_PER_DAY)

\* a quotient cut off instead of rounded
RoundDivDown(x, y) == x \div y

\* ROUND(x::numeric / y) for x >= 0, y > 0
RoundDiv(x, y) == (2 * x + y) \div (2 * y)

ActiveMembershipsOf(d, u) ==
  {s \in Squads : d.members[<<s, u>>].status = "active"}

\* step 2: UPDATE players SET career_status = 'completed'
MarkCompleted(d, p) ==
  [d EXCEPT !.players[p].career_status = "completed",
            !.players[p].career_completed_at = Some(nowMs)]

\* step 3: INSERT INTO career_completions ... ON CONFLICT (player_id) DO NOTHING
CompletionConflict(d, p) ==
  \E i \in 1..Len(d.career_completions) : d.career_completions[i].player_id = p

InsertCompletion(d, p, u, days) ==
  [d EXCEPT !.career_completions =
     Append(@, [player_id |-> p, user_id |-> u, days_to_premier |-> days])]

\* step 4: INSERT INTO coach_stats ... ON CONFLICT (user_id) DO UPDATE
UpsertCoachStats(d, u, days) ==
  LET c == d.coach_stats[u] IN
  IF ~c.present
  THEN [d EXCEPT !.coach_stats[u] =
          [present |-> TRUE, completions_count |-> 1, total_days_sum |-> days,
           best_days_to_premier |-> Some(days), avg_days_to_premier |-> Some(days)]]
  ELSE [d EXCEPT !.coach_stats[u] =
          [present |-> TRUE,
           completions_count |-> c.completions_count + 1,
           total_days_sum |-> c.total_days_sum + days,
           avg_days_to_premier |->
             Some(RoundDiv(c.total_days_sum + days, c.completions_count + 1)),
           best_days_to_premier |->
             Some(Min2(IF IsNull(c.best_days_to_premier) THEN days
                       ELSE Val(c.best_days_to_premier), days))]]

\* the award crediting unspent_points only
AwardSquadPointUnspentOnly(d, s, u) ==
  [d EXCEPT !.squads[s].unspent_points = @ + 1,
            !.members[<<s, u>>].points_contributed = @ + 1,
            !.point_events = Append(@, [squad_id |-> s, user_id |-> u, delta_points |-> 1])]

\* step 5: +1 to the squad's total and unspent points, +1 to the member's
\* contribution, one squad_point_events row
AwardSquadPoint(d, s, u) ==
  [d EXCEPT !.squads[s].total_points = @ + 1,
            !.squads[s].unspent_points = @ + 1,
            !.members[<<s, u>>].points_contributed = @ + 1,
            !.point_events = Append(@, [squad_id |-> s, user_id |-> u, delta_points |-> 1])]

\* the statements of the transaction at which a query can fail (connection
\* lost, timeout): 0 is no failure
FailPoints == {0, 2, 3, 4, 5}

\* completePlayerCareer with the squad award placed before the
\* already-completed return
completePlayerCareerAwardFirst(d, p, seen, m, failAt) ==
  LET u == d.players[p].user_id
      days == DaysToPremier(nowMs, d.players[p].career_started_at)
      a == IF IsNull(m) THEN d ELSE AwardSquadPoint(d, Val(m), u)
      d1 == MarkCompleted(a, p)
      d3 == UpsertCoachStats(InsertCompletion(d1, p, u, days), u, days)
  IN
  IF seen = "completed" \/ CompletionConflict(d1, p)
  THEN [db |-> a, threw |-> FALSE, already_completed |-> TRUE, awarded |-> ~IsNull(m)]
  ELSE [db |-> d3, threw |-> days <= 0 \/ failAt # 0, already_completed |-> FALSE,
        awarded |-> ~IsNull(m)]

\* The statements of completePlayerCareer after the player row is locked.
\* seen: the career_status read under the lock; m: the membership row that
\* "WHERE user_id = $1 AND status = 'active' LIMIT 1" returns (None: no row).
\* threw: a query failed (failAt), or the CHECK (days_to_premier > 0)
\* rejected the insert; db is then the state at the failing statement.
completePlayerCareer(d, p, seen, m, failAt) ==
  LET u == d.players[p].user_id
      days == DaysToPremier(nowMs, d.players[p].career_started_at)
      d1 == MarkCompleted(d, p)
      d2 == InsertCompletion(d1, p, u, days)
      d3 == UpsertCoachStats(d2, u, days)
      d4 == IF IsNull(m) THEN d3 ELSE AwardSquadPoint(d3, Val(m), u)
      Threw(x) == [db |-> x, threw |-> TRUE, already_completed |-> FALSE, awarded |-> FALSE]
  IN
  IF seen = "completed"
  THEN [db |-> d, threw |-> FALSE, already_completed |-> TRUE, awarded |-> FALSE]
  ELSE IF failAt = 2 THEN Threw(d)
  ELSE IF failAt = 3 THEN Threw(d1)
  ELSE IF CompletionConflict(d1, p)
  THEN [db |-> d1, threw |-> FALSE, already_completed |-> TRUE, awarded |-> FALSE]
  ELSE IF days <= 0 THEN Threw(d1)
  ELSE IF failAt = 4 THEN Threw(d2)
  ELSE IF failAt = 5 THEN Threw(d3)
  ELSE [db |-> d4, threw |-> FALSE, already_completed |-> FALSE, awarded |-> ~IsNull(m)]

\* the rows the membership SELECT of step 5 can return
MembershipChoices(d, u) ==
  IF ActiveMembershipsOf(d, u) = {} THEN {None}
  ELSE {Some(s) : s \in ActiveMembershipsOf(d, u)}

\* ------------------------------------------------------------- sweep.js

\* a schedule on which every day is due
IsDueAlways(today) == TRUE

\* const isDue = today % 4 === 0
IsDue(today) == today % 4 = 0

AlreadyRan(state, today) == state.last_sweep_utc_day = Some(today)

\* ShouldRun without the "already ran today" return
ShouldRunNoRanGuard(force, state, today) == ~(~force /\ ~IsDue(today))

\* Phase 1 guards: "if (!force && !isDue) return; if (!force && alreadyRan) return;"
ShouldRun(force, state, today) ==
  ~(~force /\ ~IsDue(today)) /\ ~(~force /\ AlreadyRan(state, today))

\* UPDATE sweep_state SET last_sweep_utc_day = $1, run_count = run_count + 1
StampSweepState(d, today) ==
  [d EXCEPT !.sweep_state = [last_sweep_utc_day |-> Some(today),
                             last_sweep_at |-> Some(nowMs),
                             run_count |-> @.run_count + 1]]

\* Phase 2: SELECT ... FROM players WHERE career_status = 'active' ORDER BY id
ActivePlayers(d) ==
  SelectSeq(PlayerIds, LAMBDA p : d.players[p].career_status = "active")

\* a classification that needs the rating to exceed the threshold
QualifiesAbove(row) == row.overall_rating > PROMOTION_THRESHOLDS[row.current_league]

\* Phase 3: classification of the loaded rows
Qualifies(row) == row.overall_rating >= PROMOTION_THRESHOLDS[row.current_league]

ToComplete(snap, active) ==
  SelectSeq(active, LAMBDA p : Qualifies(snap[p]) /\ snap[p].current_league = "championship")

ToPromote(snap, active) ==
  SelectSeq(active, LAMBDA p : Qualifies(snap[p]) /\ snap[p].current_league # "championship")

\* Phase 5: the target leagues in Object.entries(byTarget) order
Targets(snap, toPromote) ==
  Dedup([i \in 1..Len(toPromote) |-> LEAGUE_NEXT[snap[toPromote[i]].current_league]])

IdsFor(snap, toPromote, target) ==
  {p \in Range(toPromote) : LEAGUE_NEXT[snap[p].current_league] = target}

\* UPDATE players SET current_league = $1 WHERE id IN (...) AND career_status = 'active'
BatchPromote(d, target, ids) ==
  [d EXCEPT !.players =
     [p \in Players |->
        IF p \in ids /\ d.players[p].career_status = "active"
        THEN [d.players[p] EXCEPT !.current_league = target]
        ELSE d.players[p]]]

\* a throw that is caught and forgotten
CollectErrorDropped(errors, entry, threw) == errors

\* catch (err) { errors.push(entry) } around one completion or one batch
CollectError(errors, entry, threw) == IF threw THEN Append(errors, entry) ELSE errors

\* where runTransferSweep goes after Phase 1: "if (!shouldRun) return {ran: false}"
AfterPhase1(shouldRun) == IF shouldRun THEN "load" ELSE "done"

CallerIdle ==
  [pc |-> "idle", op |-> "", user |-> "", squad |-> "", player |-> "", fac |-> "",
   seen |-> "", result |-> "", calls |-> 0, overlapped |-> FALSE, start |-> "",
   awarded |-> FALSE, arg |-> "", target |-> "", req |-> 0, n |-> 0]

\* a handler takes the next request once the previous one has returned
CanCall(c) == cl[c].pc \in {"idle", "done"} /\ cl[c].calls < MaxCalls

\* ------------------------------ POST /api/players/:id/complete (part_003)

\* the request arrives: completePlayerCareer(player_id), BEGIN
CompleteCall(c) ==
  /\ CanCall(c)
  /\ \E p \in Players :
       cl' = [cl EXCEPT ![c] =
                [CallerIdle EXCEPT !.pc = "locking", !.op = "complete", !.player = p,
                                   !.calls = cl[c].calls + 1,
                                   !.start = db.players[p].career_status,
                                   !.overlapped =
                                      \E o \in Callers \ {c} :
                                        /\ cl[o].op = "complete" /\ cl[o].player = p
                                        /\ cl[o].pc \in {"locking", "completing"}]]
  /\ UNCHANGED <<db, locks, advisory, tick, sw, db0, simVars>>

\* SELECT * FROM players WHERE id = $1 FOR UPDATE
CompleteLock(c) ==
  /\ cl[c].pc = "locking"
  /\ LockFree(<<"players", cl[c].player>>, c)
  /\ locks' = locks \cup {<<<<"players", cl[c].player>>, c>>}
  /\ cl' = [cl EXCEPT ![c].pc = "completing",
                      ![c].seen = db.players[cl[c].player].career_status]
  /\ UNCHANGED <<db, advisory, tick, sw, db0, simVars>>

\* steps 2-5 and COMMIT, or ROLLBACK when a statement throws
CompleteCommit(c) ==
  /\ cl[c].pc = "completing"
  /\ LET p == cl[c].player IN
     \E m \in MembershipChoices(db, db.players[p].user_id), failAt \in FailPoints :
       LET out == completePlayerCareer(db, p, cl[c].seen, m, failAt) IN
         /\ (~IsNull(m) /\ ~out.threw /\ ~out.already_completed)
              => /\ LockFree(<<"squads", Val(m)>>, c)
                 /\ LockFree(<<Val(m), db.players[p].user_id>>, c)
         /\ db' = withTransaction(db, out)
         /\ cl' = [cl EXCEPT ![c].pc = "done",
                             ![c].awarded = out.awarded /\ ~out.threw,
                             ![c].result = IF out.threw THEN "error"
                                           ELSE IF out.already_completed THEN "already"
                                           ELSE "completed"]
  /\ locks' = locks \ HeldBy(c)
  /\ UNCHANGED <<advisory, tick, sw, db0, simVars>>

\* ------------------------ completePlayerCareer of the in-memory store
\* (player-careers.js, data-store.js)

\* the body of completePlayerCareer: it runs without interruption; m is the
\* membership getUserSquadMembership finds
completePlayerCareerInMemory(d, p, m) ==
  LET u == d.players[p].user_id
      days == daysToPremierInMemory(nowMs, d.players[p].career_started_at)
      d1 == MarkCompleted(d, p)
      d2 == InsertCompletion(d1, p, u, days)
      d3 == UpsertCoachStats(d2, u, days)
      d4 == IF IsNull(m) THEN d3 ELSE AwardSquadPoint(d3, Val(m), u)
  IN
  IF d.players[p].career_status = "completed"
  THEN [db |-> d, already_completed |-> TRUE]
  ELSE [db |-> d4, already_completed |-> FALSE]

\* completePlayerCareer(player_id) on the in-memory store
CompleteInMemory(c) ==
  /\ CanCall(c)
  /\ \E p \in Players :
       \E m \in MembershipChoices(db, db.players[p].user_id) :
         LET out == completePlayerCareerInMemory(db, p, m) IN
           /\ db' = out.db
           /\ cl' = [cl EXCEPT ![c] =
                       [CallerIdle EXCEPT !.pc = "done", !.op = "complete", !.player = p,
                                          !.start = db.players[p].career_status,
                                          !.result = IF out.already_completed THEN "already"
                                                     ELSE "completed",
                                          !.calls = cl[c].calls + 1]]
  /\ UNCHANGED <<locks, advisory, tick, sw, db0, simVars>>

\* ------------------------------- createPlayer, updatePlayerProgress (part_003)

\* the display names a registration can carry (None: not given)
DisplayNames == {None, Some("Ann")}

\* INSERT INTO players ... ON CONFLICT (id) DO UPDATE
\*   SET display_name = COALESCE(EXCLUDED.display_name, players.display_name)
\* for an id that is already registered
createPlayerRow(d, p, name) ==
  [d EXCEPT !.players[p].display_name = IF IsNull(name) THEN @ ELSE name]

\* INSERT INTO coach_stats (user_id, display_name) ... ON CONFLICT (user_id)
\* DO UPDATE SET display_name = ...: a missing row is created with zero counts
createPlayerStats(d, u) ==
  IF d.coach_stats[u].present THEN d
  ELSE [d EXCEPT !.coach_stats[u] =
          [present |-> TRUE, completions_count |-> 0, total_days_sum |-> 0,
           best_days_to_premier |-> None, avg_days_to_premier |-> None]]

\* the values updatePlayerProgress is called with (None: undefined)
ProgressInputs == {<<None, None>>, <<Some(90), Some("championship")>>}

\* updatePlayerProgress with the UPDATE not restricted to active players
updatePlayerProgressAnyStatus(d, p, rating, league) ==
  IF IsNull(rating) /\ IsNull(league)
  THEN [db |-> d, threw |-> TRUE, found |-> FALSE]
  ELSE [db |-> [d EXCEPT !.players[p].overall_rating =
                           IF IsNull(rating) THEN @ ELSE Val(rating),
                         !.players[p].current_league =
                           IF IsNull(league) THEN @ ELSE Val(league)],
        threw |-> FALSE, found |-> TRUE]

\* updatePlayerProgress(player_id, {overall_rating, current_league}):
\* "if (!overall_rating && !current_league) throw"; UPDATE players SET ...
\* WHERE id = $n AND career_status = 'active' RETURNING *; rows[0] ?? null
updatePlayerProgress(d, p, rating, league) ==
  IF IsNull(rating) /\ IsNull(league)
  THEN [db |-> d, threw |-> TRUE, found |-> FALSE]
  ELSE IF d.players[p].career_status # "active"
  THEN [db |-> d, threw |-> FALSE, found |-> FALSE]
  ELSE [db |-> [d EXCEPT !.players[p].overall_rating =
                           IF IsNull(rating) THEN @ ELSE Val(rating),
                         !.players[p].current_league =
                           IF IsNull(league) THEN @ ELSE Val(league)],
        threw |-> FALSE, found |-> TRUE]

\* PATCH /api/players/:id/progress: one auto-committed UPDATE, which waits
\* for the row lock of a transaction that holds the player
UpdateProgress(c) ==
  /\ CanCall(c)
  /\ \E p \in Players, in \in ProgressInputs :
       LET out == updatePlayerProgress(db, p, in[1], in[2]) IN
         /\ LockFree(<<"players", p>>, c)
         /\ db' = out.db
         /\ cl' = [cl EXCEPT ![c] =
                     [CallerIdle EXCEPT !.pc = "done", !.op = "update", !.player = p,
                                        !.calls = cl[c].calls + 1,
                                        !.start = db.players[p].career_status,
                                        !.result = IF out.threw THEN "error"
                                                   ELSE IF out.found THEN "updated"
                                                   ELSE "null"]]
  /\ UNCHANGED <<locks, advisory, tick, sw, db0, simVars>>

\* createPlayer for a registered id: the INSERT ... ON CONFLICT on players
CreatePlayerInsert(c) ==
  /\ CanCall(c)
  /\ \E p \in Players, u \in Users, name \in DisplayNames :
       /\ LockFree(<<"players", p>>, c)
       /\ db' = createPlayerRow(db, p, name)
       /\ cl' = [cl EXCEPT ![c] =
                   [CallerIdle EXCEPT !.pc = "stats", !.op = "register", !.player = p,
                                      !.user = u, !.calls = cl[c].calls + 1,
                                      !.start = db.players[p].career_status]]
  /\ UNCHANGED <<locks, advisory, tick, sw, db0, simVars>>

\* createPlayer: the coach_stats upsert, then "return rows[0]"
CreatePlayerStats(c) ==
  /\ cl[c].pc = "stats"
  /\ db' = createPlayerStats(db, cl[c].user)
  /\ cl' = [cl EXCEPT ![c].pc = "done", ![c].result = "registered"]
  /\ UNCHANGED <<locks, advisory, tick, sw, db0, simVars>>

\* ------------------------------------------------- squads (sweep.js 251-805)

Privacies == {"open", "request", "closed"}

\* no row in coaching_squad_members for (squad, user)
NoMember == [status |-> "none", role |-> "member", points_contributed |-> 0]

\* no row in coaching_squads
NoSquad ==
  [exists |-> FALSE, privacy |-> "open", leader_user_id |-> "", total_points |-> 0,
   unspent_points |-> 0, level |-> 1]

\* no rows in squad_facilities
NoFacilities == [f \in {} |-> 0]

\* the four rows at DEFAULT level 0
NewFacilities == [f \in FACILITY_TYPES |-> 0]

MemberKey(s, u) == <<s, u>>

RECURSIVE SumLevels(_, _)
SumLevels(fs, types) ==
  IF types = {} THEN 0
  ELSE LET f == CHOOSE x \in types : TRUE IN fs[f] + SumLevels(fs, types \ {f})

\* 1 + Math.floor(COALESCE(SUM(level), 0) / 4)
computeSquadLevel(d, s) == 1 + (SumLevels(d.facilities[s], DOMAIN d.facilities[s]) \div 4)

\* a cost that does not grow with the level
upgradeCostFlat(f, currentLevel) == FACILITY_BASE_COSTS[f]

\* upgradeCost(facilityType, currentLevel) of data-store.js
upgradeCost(f, currentLevel) == FACILITY_BASE_COSTS[f] * (currentLevel + 1)

\* assertLeaderOrCoLeader: does not throw
IsLeaderOrCoLeader(d, u, s) ==
  /\ d.members[<<s, u>>].status = "active"
  /\ d.members[<<s, u>>].role \in {"leader", "co_leader"}

\* getUserActiveMembership returns a row
HasActiveMembership(d, u) == ActiveMembershipsOf(d, u) # {}

\* INSERT INTO squad_facilities ... ON CONFLICT DO NOTHING
initFacilities(d, s) ==
  [d EXCEPT !.facilities[s] =
     [f \in FACILITY_TYPES |-> IF f \in DOMAIN d.facilities[s] THEN d.facilities[s][f] ELSE 0]]

\* INSERT INTO coaching_squad_members (squad_id, user_id, role) VALUES ($1, $2, 'member')
\* ON CONFLICT (squad_id, user_id) DO UPDATE SET status = 'active'
UpsertMember(d, s, u) ==
  [d EXCEPT !.members[<<s, u>>] =
     IF @.status = "none"
     THEN [status |-> "active", role |-> "member", points_contributed |-> 0]
     ELSE [@ EXCEPT !.status = "active"]]

\* the INSERTs of createSquad
InsertSquad(d, s, u, privacy) ==
  initFacilities(
    [d EXCEPT !.squads[s] = [NoSquad EXCEPT !.exists = TRUE, !.privacy = privacy,
                                             !.leader_user_id = u],
              !.members[<<s, u>>] =
                 [status |-> "active", role |-> "leader", points_contributed |-> 0]],
    s)

\* ids gen_random_uuid() has not handed out yet
FreeSquadIds ==
  {s \in Squads : ~db.squads[s].exists
                  /\ \A o \in Callers : ~(cl[o].op = "create" /\ cl[o].squad = s
                                          /\ cl[o].pc \notin {"idle", "done"})}

\* the response is sent; the handler's locals are gone
Done(c, result) ==
  [cl EXCEPT ![c] = [CallerIdle EXCEPT !.pc = "done", !.op = cl[c].op, !.result = result,
                                       !.calls = cl[c].calls]]

\* POST /api/squads/create: createSquad(userId, {privacy}), BEGIN
CreateCall(c) ==
  /\ CanCall(c)
  /\ \E u \in Users, s \in FreeSquadIds, pv \in Privacies :
       cl' = [cl EXCEPT ![c] = [CallerIdle EXCEPT !.pc = "cs_check", !.op = "create",
                                                   !.user = u, !.squad = s, !.arg = pv,
                                                   !.calls = cl[c].calls + 1]]
  /\ UNCHANGED <<db, locks, advisory, tick, sw, db0, simVars>>

\* const existing = await getUserActiveMembership(client, userId)
CreateCheck(c) ==
  /\ cl[c].pc = "cs_check"
  /\ cl' = IF HasActiveMembership(db, cl[c].user) THEN Done(c, "error")
           ELSE [cl EXCEPT ![c].pc = "cs_insert"]
  /\ UNCHANGED <<db, locks, advisory, tick, sw, db0, simVars>>

\* the three INSERTs and COMMIT
CreateInsert(c) ==
  /\ cl[c].pc = "cs_insert"
  /\ db' = InsertSquad(db, cl[c].squad, cl[c].user, cl[c].arg)
  /\ cl' = Done(c, "ok")
  /\ UNCHANGED <<locks, advisory, tick, sw, db0, simVars>>

\* POST /api/squads/:id/join: joinOpenSquad(userId, squadId), BEGIN
JoinCall(c) ==
  /\ CanCall(c)
  /\ \E u \in Users, s \in Squads :
       cl' = [cl EXCEPT ![c] = [CallerIdle EXCEPT !.pc = "jn_check", !.op = "join",
                                                   !.user = u, !.squad = s,
                                                   !.calls = cl[c].calls + 1]]
  /\ UNCHANGED <<db, locks, advisory, tick, sw, db0, simVars>>

\* const existing = await getUserActiveMembership(client, userId)
JoinCheck(c) ==
  /\ cl[c].pc = "jn_check"
  /\ cl' = IF HasActiveMembership(db, cl[c].user) THEN Done(c, "error")
           ELSE [cl EXCEPT ![c].pc = "jn_write"]
  /\ UNCHANGED <<db, locks, advisory, tick, sw, db0, simVars>>

\* SELECT the squad FOR UPDATE, the privacy check, the member upsert, COMMIT
JoinWrite(c) ==
  /\ cl[c].pc = "jn_write"
  /\ LET s == cl[c].squad
         u == cl[c].user IN
       /\ LockFree(<<"squads", s>>, c)
       /\ IF ~db.squads[s].exists \/ db.squads[s].privacy # "open"
          THEN db' = db /\ cl' = Done(c, "error")
          ELSE /\ LockFree(MemberKey(s, u), c)
               /\ db' = UpsertMember(db, s, u)
               /\ cl' = Done(c, "ok")
  /\ UNCHANGED <<locks, advisory, tick, sw, db0, simVars>>

\* POST /api/squads/:id/request-join: requestJoinSquad(userId, squadId), BEGIN
RequestCall(c) ==
  /\ CanCall(c)
  /\ Len(db.requests)
       + Cardinality({o \in Callers : cl[o].op = "request" /\ cl[o].pc \notin {"idle", "done"}})
       < MaxRequests
  /\ \E u \in Users, s \in Squads :
       cl' = [cl EXCEPT ![c] = [CallerIdle EXCEPT !.pc = "rq_check", !.op = "request",
                                                   !.user = u, !.squad = s,
                                                   !.calls = cl[c].calls + 1]]
  /\ UNCHANGED <<db, locks, advisory, tick, sw, db0, simVars>>

\* const existing = await getUserActiveMembership(client, userId)
RequestCheck(c) ==
  /\ cl[c].pc = "rq_check"
  /\ cl' = IF HasActiveMembership(db, cl[c].user) THEN Done(c, "error")
           ELSE [cl EXCEPT ![c].pc = "rq_write"]
  /\ UNCHANGED <<db, locks, advisory, tick, sw, db0, simVars>>

\* INSERT INTO coaching_squad_join_requests ... ON CONFLICT DO NOTHING: the
\* table has no unique constraint besides its id, so no conflict can arise
InsertRequest(d, s, u) ==
  [d EXCEPT !.requests = Append(@, [squad_id |-> s, user_id |-> u, status |-> "pending",
                                    resolved_by |-> ""])]

\* the squad read; closed: throw; open: the inlined join; request: the insert
RequestWrite(c) ==
  /\ cl[c].pc = "rq_write"
  /\ LET s == cl[c].squad
         u == cl[c].user IN
       IF ~db.squads[s].exists \/ db.squads[s].privacy = "closed"
       THEN db' = db /\ cl' = Done(c, "error")
       ELSE IF db.squads[s].privacy = "open"
       THEN /\ LockFree(<<"squads", s>>, c) /\ LockFree(MemberKey(s, u), c)
            /\ db' = UpsertMember(db, s, u)
            /\ cl' = Done(c, "joined")
       ELSE /\ db' = InsertRequest(db, s, u)
            /\ cl' = [Done(c, "requested") EXCEPT ![c].req = Len(db'.requests)]
  /\ UNCHANGED <<locks, advisory, tick, sw, db0, simVars>>

RequestKey(i) == <<"requests", ToString(i)>>

\* POST /api/squads/requests/:id/resolve: resolveSquadJoinRequest, BEGIN
ResolveCall(c) ==
  /\ CanCall(c)
  /\ \E i \in 1..Len(db.requests), u \in Users, action \in {"approve", "reject"} :
       cl' = [cl EXCEPT ![c] = [CallerIdle EXCEPT !.pc = "rs_lock", !.op = "resolve",
                                                   !.user = u, !.req = i, !.arg = action,
                                                   !.squad = db.requests[i].squad_id,
                                                   !.target = db.requests[i].user_id,
                                                   !.calls = cl[c].calls + 1]]
  /\ UNCHANGED <<db, locks, advisory, tick, sw, db0, simVars>>

\* the request row locked without a look at its status
ResolveLockAnyStatus(c) ==
  /\ cl[c].pc = "rs_lock"
  /\ LockFree(RequestKey(cl[c].req), c)
  /\ locks' = locks \cup {<<RequestKey(cl[c].req), c>>}
  /\ cl' = [cl EXCEPT ![c].pc = "rs_assert"]
  /\ UNCHANGED <<db, advisory, tick, sw, db0, simVars>>

\* SELECT * FROM coaching_squad_join_requests WHERE id = $1 FOR UPDATE
ResolveLock(c) ==
  /\ cl[c].pc = "rs_lock"
  /\ LockFree(RequestKey(cl[c].req), c)
  /\ IF db.requests[cl[c].req].status # "pending"
     THEN locks' = locks /\ cl' = Done(c, "error")
     ELSE /\ locks' = locks \cup {<<RequestKey(cl[c].req), c>>}
          /\ cl' = [cl EXCEPT ![c].pc = "rs_assert"]
  /\ UNCHANGED <<db, advisory, tick, sw, db0, simVars>>

\* await assertLeaderOrCoLeader(client, resolvingUserId, request.squad_id)
ResolveAssert(c) ==
  /\ cl[c].pc = "rs_assert"
  /\ IF ~IsLeaderOrCoLeader(db, cl[c].user, cl[c].squad)
     THEN locks' = locks \ HeldBy(c) /\ cl' = Done(c, "forbidden")
     ELSE /\ locks' = locks
          /\ cl' = [cl EXCEPT ![c].pc = IF cl[c].arg = "approve" THEN "rs_member"
                                        ELSE "rs_write"]
  /\ UNCHANGED <<db, advisory, tick, sw, db0, simVars>>

\* UPDATE coaching_squad_join_requests SET status = $1, resolved_by = $2
SetRequestStatus(d, i, status, by) ==
  [d EXCEPT !.requests[i].status = status, !.requests[i].resolved_by = by]

\* approve: const alreadyIn = await getUserActiveMembership(client, request.user_id);
\* when set, the request is updated to 'rejected' and the Error is thrown
ResolveMember(c) ==
  /\ cl[c].pc = "rs_member"
  /\ IF HasActiveMembership(db, cl[c].target)
     THEN /\ db' = withTransaction(db,
                     [db |-> SetRequestStatus(db, cl[c].req, "rejected", cl[c].user),
                      threw |-> TRUE])
          /\ locks' = locks \ HeldBy(c)
          /\ cl' = Done(c, "already_in_squad")
     ELSE /\ db' = db
          /\ locks' = locks
          /\ cl' = [cl EXCEPT ![c].pc = "rs_write"]
  /\ UNCHANGED <<advisory, tick, sw, db0, simVars>>

\* approve: the member upsert; then the request UPDATE and COMMIT
ResolveWrite(c) ==
  /\ cl[c].pc = "rs_write"
  /\ LET s == cl[c].squad
         u == cl[c].target IN
       IF cl[c].arg = "approve"
       THEN /\ LockFree(<<"squads", s>>, c) /\ LockFree(MemberKey(s, u), c)
            /\ db' = SetRequestStatus(UpsertMember(db, s, u), cl[c].req, "approved", cl[c].user)
            /\ cl' = Done(c, "approved")
       ELSE /\ db' = SetRequestStatus(db, cl[c].req, "rejected", cl[c].user)
            /\ cl' = Done(c, "rejected")
  /\ locks' = locks \ HeldBy(c)
  /\ UNCHANGED <<advisory, tick, sw, db0, simVars>>

\* POST /api/squads/leave: leaveSquad(userId), BEGIN
LeaveCall(c) ==
  /\ CanCall(c)
  /\ \E u \in Users :
       cl' = [cl EXCEPT ![c] = [CallerIdle EXCEPT !.pc = "lv_lock", !.op = "leave",
                                                   !.user = u,
                                                   !.calls = cl[c].calls + 1]]
  /\ UNCHANGED <<db, locks, advisory, tick, sw, db0, simVars>>

\* SELECT * FROM coaching_squad_members WHERE user_id = $1 AND status = 'active'
\* FOR UPDATE; the first row returned is the membership
LeaveLock(c) ==
  /\ cl[c].pc = "lv_lock"
  /\ LET mine == ActiveMembershipsOf(db, cl[c].user) IN
       IF mine = {}
       THEN locks' = locks /\ cl' = Done(c, "error")
       ELSE /\ \A s \in mine : LockFree(MemberKey(s, cl[c].user), c)
            /\ locks' = locks \cup {<<MemberKey(s, cl[c].user), c>> : s \in mine}
            /\ \E s \in mine :
                 cl' = [cl EXCEPT ![c].pc = "lv_write", ![c].squad = s,
                                  ![c].seen = db.members[<<s, cl[c].user>>].role]
  /\ UNCHANGED <<db, advisory, tick, sw, db0, simVars>>

\* a leader free to leave whoever stays behind
LeaderMustStayNever(d, s, u) == FALSE

\* "others.length > 0 && !hasOtherLeadership" of leaveSquad
LeaderMustStay(d, s, u) ==
  LET others == {o \in Users \ {u} : d.members[<<s, o>>].status = "active"} IN
    /\ others # {}
    /\ ~\E o \in others : d.members[<<s, o>>].role \in {"leader", "co_leader"}

\* the leadership check, UPDATE ... SET status = 'inactive', COMMIT
LeaveWrite(c) ==
  /\ cl[c].pc = "lv_write"
  /\ LET s == cl[c].squad
         u == cl[c].user IN
       IF cl[c].seen = "leader" /\ LeaderMustStay(db, s, u)
       THEN db' = db /\ cl' = Done(c, "error")
       ELSE /\ LockFree(<<"squads", s>>, c)
            /\ db' = [db EXCEPT !.members[<<s, u>>].status = "inactive"]
            /\ cl' = Done(c, "ok")
  /\ locks' = locks \ HeldBy(c)
  /\ UNCHANGED <<advisory, tick, sw, db0, simVars>>

\* POST /api/squads/:id/set-role: setMemberRole(leaderId, targetUserId, squadId, newRole)
RoleCall(c) ==
  /\ CanCall(c)
  /\ \E u \in Users, t \in Users, s \in Squads, role \in {"co_leader", "member"} :
       cl' = [cl EXCEPT ![c] = [CallerIdle EXCEPT !.pc = "rl_check", !.op = "role",
                                                   !.user = u, !.target = t, !.squad = s,
                                                   !.arg = role,
                                                   !.calls = cl[c].calls + 1]]
  /\ UNCHANGED <<db, locks, advisory, tick, sw, db0, simVars>>

\* SELECT role ... ; "if (!leaderMem || leaderMem.role !== 'leader') throw"
RoleCheck(c) ==
  /\ cl[c].pc = "rl_check"
  /\ LET m == db.members[<<cl[c].squad, cl[c].user>>] IN
       cl' = IF m.status = "active" /\ m.role = "leader"
             THEN [cl EXCEPT ![c].pc = "rl_write"]
             ELSE Done(c, "forbidden")
  /\ UNCHANGED <<db, locks, advisory, tick, sw, db0, simVars>>

\* UPDATE coaching_squad_members SET role = $1 WHERE ... AND status = 'active', COMMIT
RoleWrite(c) ==
  /\ cl[c].pc = "rl_write"
  /\ LET k == <<cl[c].squad, cl[c].target>> IN
       /\ LockFree(MemberKey(cl[c].squad, cl[c].target), c)
       /\ IF db.members[k].status = "active"
          THEN db' = [db EXCEPT !.members[k].role = cl[c].arg] /\ cl' = Done(c, "ok")
          ELSE db' = db /\ cl' = Done(c, "error")
  /\ UNCHANGED <<locks, advisory, tick, sw, db0, simVars>>

FacilityKey(s, f) == <<f, s>>

\* upgradeSquadFacility with the squad level computed before the facility UPDATE
upgradeSquadFacilityStaleLevel(d, s, u, f, unspentSeen) ==
  LET currentLevel == d.facilities[s][f]
      cost == upgradeCost(f, currentLevel)
      d1 == [d EXCEPT !.facilities[s][f] = @ + 1]
      d2 == [d1 EXCEPT !.squads[s].unspent_points = @ - cost,
                       !.squads[s].level = computeSquadLevel(d, s)]
  IN
  IF unspentSeen < cost THEN [db |-> d, threw |-> TRUE]
  ELSE [db |-> d2, threw |-> d2.squads[s].unspent_points < 0]

\* The statements of upgradeSquadFacility after the squad row is locked and
\* the facility row is found. unspentSeen: squad.unspent_points as read under
\* the lock. threw: insufficient points, or CHECK (unspent_points >= 0)
\* rejected the UPDATE.
upgradeSquadFacility(d, s, u, f, unspentSeen) ==
  LET currentLevel == d.facilities[s][f]
      cost == upgradeCost(f, currentLevel)
      d1 == [d EXCEPT !.facilities[s][f] = @ + 1]
      d2 == [d1 EXCEPT !.squads[s].unspent_points = @ - cost,
                       !.squads[s].level = computeSquadLevel(d1, s)]
      d3 == [d2 EXCEPT !.spend = Append(@, [squad_id |-> s, user_id |-> u,
                                            points_spent |-> cost, facility_type |-> f,
                                            from_level |-> currentLevel,
                                            to_level |-> currentLevel + 1])]
  IN
  IF unspentSeen < cost THEN [db |-> d, threw |-> TRUE]
  ELSE [db |-> d3, threw |-> d2.squads[s].unspent_points < 0]

\* POST /api/squads/:id/facilities/:type/upgrade, BEGIN
UpgradeCall(c) ==
  /\ CanCall(c)
  /\ \E u \in Users, s \in Squads, f \in FACILITY_TYPES :
       cl' = [cl EXCEPT ![c] = [CallerIdle EXCEPT !.pc = "up_assert", !.op = "upgrade",
                                                   !.user = u, !.squad = s, !.fac = f,
                                                   !.calls = cl[c].calls + 1]]
  /\ UNCHANGED <<db, locks, advisory, tick, sw, db0, simVars>>

\* the upgrade open to any caller
UpgradeAssertAnyone(c) ==
  /\ cl[c].pc = "up_assert"
  /\ cl' = [cl EXCEPT ![c].pc = "up_lock"]
  /\ UNCHANGED <<db, locks, advisory, tick, sw, db0, simVars>>

\* await assertLeaderOrCoLeader(client, userId, squadId)
UpgradeAssert(c) ==
  /\ cl[c].pc = "up_assert"
  /\ cl' = IF IsLeaderOrCoLeader(db, cl[c].user, cl[c].squad)
           THEN [cl EXCEPT ![c].pc = "up_lock"]
           ELSE Done(c, "forbidden")
  /\ UNCHANGED <<db, locks, advisory, tick, sw, db0, simVars>>

\* SELECT * FROM coaching_squads WHERE id = $1 FOR UPDATE
UpgradeLock(c) ==
  /\ cl[c].pc = "up_lock"
  /\ LockFree(<<"squads", cl[c].squad>>, c)
  /\ IF ~db.squads[cl[c].squad].exists
     THEN locks' = locks /\ cl' = Done(c, "error")
     ELSE /\ locks' = locks \cup {<<<<"squads", cl[c].squad>>, c>>}
          /\ cl' = [cl EXCEPT ![c].pc = "up_write",
                              ![c].n = db.squads[cl[c].squad].unspent_points]
  /\ UNCHANGED <<db, advisory, tick, sw, db0, simVars>>

\* the facility row FOR UPDATE, the cost check, the three writes, COMMIT
UpgradeWrite(c) ==
  /\ cl[c].pc = "up_write"
  /\ LET s == cl[c].squad
         f == cl[c].fac IN
       /\ LockFree(FacilityKey(s, f), c)
       /\ IF f \notin DOMAIN db.facilities[s]
          THEN db' = db /\ cl' = Done(c, "error")
          ELSE LET out == upgradeSquadFacility(db, s, cl[c].user, f, cl[c].n) IN
                 /\ db' = withTransaction(db, out)
                 /\ cl' = Done(c, IF out.threw THEN "error" ELSE "ok")
  /\ locks' = locks \ HeldBy(c)
  /\ UNCHANGED <<advisory, tick, sw, db0, simVars>>

\* ------------------------------------- simulateDayCore (unnamed/part_007)

\* retryWrite(fn, retries) when the first failRun attempts of fn throw:
\* attempt i (from 0) is the last one when it succeeds or when i = retries
retryWrite(failRun, retries) ==
  [ok |-> failRun <= retries, attempts |-> Min2(failRun, retries) + 1]

\* a write that is not wrapped in retryWrite
directWrite(failRun) == retryWrite(failRun, 0)

\* how many attempts in a row can fail: none, all but the last, or all
RetriedRuns == IF fails < MaxFails THEN {0, RETRIES, RETRIES + 1} ELSE {0, RETRIES}
DirectRuns == IF fails < MaxFails THEN {0, 1} ELSE {0}

\* the list never rotated
RotateNone(rest, rot) == rest

\* rot === 0 ? rest : [...rest.slice(rest.length - rot), ...rest.slice(0, rest.length - rot)]
Rotate(rest, rot) ==
  IF rot = 0 THEN rest
  ELSE SubSeq(rest, Len(rest) - rot + 1, Len(rest)) \o SubSeq(rest, 1, Len(rest) - rot)

\* the pairing loop reading all[n - 1 - i] from a list indexed from 1
getRoundRobinPairingsOffByOne(clubIds, matchday) ==
  LET n == Len(clubIds)
      all == <<Head(clubIds)>> \o Rotate(Tail(clubIds), (matchday - 1) % (n - 1))
  IN [k \in 1..(n \div 2) |-> <<all[k], all[n - k]>>]

getRoundRobinPairings(clubIds, matchday) ==
  LET n == Len(clubIds)
      half == n - 1
      isSecondHalf == matchday > half
      rIdx == IF isSecondHalf THEN matchday - half - 1 ELSE matchday - 1
      rest == Tail(clubIds)
      rot == rIdx % Len(rest)
      all == <<Head(clubIds)>> \o Rotate(rest, rot)
      first(i) == IF i = 0 /\ rIdx % 2 = 1 THEN <<all[n], all[1]>>
                  ELSE <<all[i + 1], all[n - i]>>
  IN
  [k \in 1..(n \div 2) |->
     LET pr == first(k - 1) IN IF isSecondHalf THEN <<pr[2], pr[1]>> ELSE pr]

\* "!f.played_at && f.home_goals == null && f.away_goals == null"
IsUpcoming(f) == IsNull(f.played_at) /\ IsNull(f.home_goals) /\ IsNull(f.away_goals)

\* "f.played_at != null || f.status === 'PLAYED'"
IsPlayed(f) == ~IsNull(f.played_at) \/ f.status = "PLAYED"

\* the result of an entity filter: the matching rows, each with its id, in
\* id order
Entities(rows) == [i \in 1..Len(rows) |-> [id |-> i, row |-> rows[i]]]

\* ent.Fixture.filter({season_id, matchday})
FilterFixtures(seasonId, matchday) ==
  SelectSeq(Entities(fixtures),
            LAMBDA e : e.row.season_id = seasonId /\ e.row.matchday = matchday)

\* ent.TeamSeason.filter({season_id})
FilterTeamSeasons(seasonId) ==
  SelectSeq(Entities(teamSeasons), LAMBDA e : e.row.season_id = seasonId)

Upcoming(found) == SelectSeq(found, LAMBDA e : IsUpcoming(e.row))
Played(found) == SelectSeq(found, LAMBDA e : IsPlayed(e.row))

\* the short-circuit never taken
AlreadyPlayedNever(found) == FALSE

\* "played.length === MATCHES_PER_MD && upcoming.length === 0"
AlreadyPlayed(found) == Len(Played(found)) = MATCHES_PER_MD /\ Len(Upcoming(found)) = 0

\* the hard gate lets the tier through
GateOpen(found) == Len(Upcoming(found)) = MATCHES_PER_MD

\* Math.floor(Math.random() * 4) for both sides of each fixture: two of the
\* possible draws, which differ in the first two fixtures; each has home
\* wins, away wins and draws
GoalSeeds == {0, 1}
HomeGoals(seed, k) == (k + (IF k <= 2 THEN seed ELSE 0)) % 4
AwayGoals(seed, k) == (2 * k + (IF k <= 2 THEN 2 * seed ELSE 0)) % 4

\* step 6: results = upcoming.map(...)
Simulate(upcoming, seed) ==
  [k \in 1..Len(upcoming) |->
     [fixtureId |-> upcoming[k].id, homeClubId |-> upcoming[k].row.home_club_id,
      awayClubId |-> upcoming[k].row.away_club_id,
      home_goals |-> HomeGoals(seed, k), away_goals |-> AwayGoals(seed, k)]]

NewFixture(seasonId, matchday, pr) ==
  [season_id |-> seasonId, matchday |-> matchday, home_club_id |-> pr[1],
   away_club_id |-> pr[2], status |-> "UPCOMING", home_goals |-> None,
   away_goals |-> None, played_at |-> None]

\* a Fixture id that has not been handed out yet
NoFixture == [NewFixture(0, 0, <<0, 0>>) EXCEPT !.status = "none"]

\* the ids Fixture.create hands out: those of one generation loop are
\* consecutive, and a filter returns entities in id order
InvokerIndex(v) == IF v = "i1" THEN 1 ELSE 2
FreshIds == Cardinality(Invokers) * MaxRuns * MATCHES_PER_MD
FixtureSlot(v, k) ==
  (Len(fixtures) - FreshIds)
    + ((InvokerIndex(v) - 1) * MaxRuns + (sim[v].runs - 1)) * MATCHES_PER_MD + k
NoFixtures == [id \in 1..FreshIds |-> NoFixture]

NewSeason ==
  [status |-> "active", is_active |-> TRUE, current_matchday |-> 1,
   total_matchdays |-> TOTAL_MATCHDAYS, current_gameweek |-> 1,
   fixtures_generated |-> FALSE]

NewProgress(seasonId) == [season_id |-> seasonId, current_matchday |-> 1, status |-> "active"]

NewTeamSeason(seasonId, cid) ==
  [season_id |-> seasonId, club_id |-> cid, played |-> 0, won |-> 0, drawn |-> 0,
   lost |-> 0, goals_for |-> 0, goals_against |-> 0, goal_difference |-> 0, points |-> 0]

\* const clubMap = {}; for (const ts of teamSeasons) clubMap[ts.club_id] = ts
RECURSIVE ClubMapUpTo(_, _)
ClubMapUpTo(found, k) ==
  IF k = 0 THEN <<>>
  ELSE (found[k].row.club_id :> found[k]) @@ ClubMapUpTo(found, k - 1)

ClubMap(found) == ClubMapUpTo(found, Len(found))

\* the counters an update starts from
UpdateBase(row) ==
  [played |-> row.played, won |-> row.won, drawn |-> row.drawn, lost |-> row.lost,
   goals_for |-> row.goals_for, goals_against |-> row.goals_against,
   points |-> row.points]

\* one pass of the loop "for (const r of results)" of step 10
ApplyResult(updates, clubMap, r) ==
  IF r.homeClubId \notin DOMAIN clubMap \/ r.awayClubId \notin DOMAIN clubMap
  THEN updates
  ELSE
    LET home == clubMap[r.homeClubId]
        away == clubMap[r.awayClubId]
        base == [id \in DOMAIN updates \cup {home.id, away.id} |->
                   IF id \in DOMAIN updates THEN updates[id]
                   ELSE IF id = home.id THEN UpdateBase(home.row)
                   ELSE UpdateBase(away.row)]
        hw == r.home_goals > r.away_goals
        aw == r.home_goals < r.away_goals
        h1 == [base[home.id] EXCEPT
                 !.played = @ + 1,
                 !.goals_for = @ + r.home_goals,
                 !.goals_against = @ + r.away_goals,
                 !.won = IF hw THEN @ + 1 ELSE @,
                 !.lost = IF aw THEN @ + 1 ELSE @,
                 !.drawn = IF ~hw /\ ~aw THEN @ + 1 ELSE @,
                 !.points = IF hw THEN @ + 3 ELSE IF aw THEN @ ELSE @ + 1]
        b1 == [base EXCEPT ![home.id] = h1]
        a1 == [b1[away.id] EXCEPT
                 !.played = @ + 1,
                 !.goals_for = @ + r.away_goals,
                 !.goals_against = @ + r.home_goals,
                 !.won = IF aw THEN @ + 1 ELSE @,
                 !.lost = IF hw THEN @ + 1 ELSE @,
                 !.drawn = IF ~hw /\ ~aw THEN @ + 1 ELSE @,
                 !.points = IF aw THEN @ + 3 ELSE IF hw THEN @ ELSE @ + 1]
    IN [b1 EXCEPT ![away.id] = a1]

RECURSIVE ApplyResults(_, _, _, _)
ApplyResults(updates, clubMap, results, k) ==
  IF k > Len(results) THEN updates
  ELSE ApplyResults(ApplyResult(updates, clubMap, results[k]), clubMap, results, k + 1)

NoUpdates == [id \in {} |-> 0]

\* step 10: the updates object built from the results
ComputeUpdates(found, results) == ApplyResults(NoUpdates, ClubMap(found), results, 1)

\* a standings write that leaves the points column as it was
WriteStandingNoPoints(row, d) ==
  [row EXCEPT !.played = d.played, !.won = d.won, !.drawn = d.drawn, !.lost = d.lost,
              !.goals_for = d.goals_for, !.goals_against = d.goals_against,
              !.goal_difference = d.goals_for - d.goals_against]

\* ent.TeamSeason.update(tsId, {...})
WriteStanding(row, d) ==
  [row EXCEPT !.played = d.played, !.won = d.won, !.drawn = d.drawn, !.lost = d.lost,
              !.goals_for = d.goals_for, !.goals_against = d.goals_against,
              !.goal_difference = d.goals_for - d.goals_against, !.points = d.points]

\* the check of standFails that never aborts
StandingsFailedNever(standFails) == FALSE

\* "standFails > 0": the tier is aborted after the standings loop
StandingsFailed(standFails) == standFails > 0

\* ------------------------------ simulateDayCron (unnamed/part_006) and the
\* simulateDayCore it imports (src/components/utils/simulateDayCore.jsx)

NoEntry == [ok |-> FALSE, error |-> FALSE, aborted |-> FALSE, skipped |-> FALSE]

\* summary.tiers[tier] as the imported simulateDayCore sets it on each way
\* out of a tier: {ok: true, ...} after the advance and on the short-circuit,
\* {error, aborted: true} after failed fixture or standings writes and a
\* failed verification, {error} from the catch block, and {skipped: ...}
\* when there is no active season and when the scheduled fixtures of the
\* matchday are not twelve
CronTierEntry(outcome) ==
  CASE outcome \in {"ok", "alreadyPlayed"} -> [NoEntry EXCEPT !.ok = TRUE]
    [] outcome \in {"aborted", "verify"} -> [NoEntry EXCEPT !.error = TRUE, !.aborted = TRUE]
    [] outcome = "error" -> [NoEntry EXCEPT !.error = TRUE]
    [] OTHER -> [NoEntry EXCEPT !.skipped = TRUE]

\* const failures = tierEntries.filter(([, v]) => v.error || v.aborted);
\* const httpStatus = failures.length > 0 ? 207 : 200
cronStatus(entries) ==
  IF \E e \in entries : e.error \/ e.aborted THEN 207 ELSE 200

SimIdle ==
  [pc |-> "idle", runs |-> 0, season |-> 0, fixtures_generated |-> FALSE, prog |-> 0,
   matchday |-> 0, found |-> <<>>, pairings |-> <<>>, results |-> <<>>, i |-> 0,
   fixFails |-> 0, attempts |-> 0, ts |-> <<>>, updates |-> NoUpdates, standFails |-> 0,
   outcome |-> "", simulated |-> FALSE, wroteProgress |-> FALSE, wroteSeason |-> FALSE]

\* the tier's summary entry is set; the locals of the iteration are gone
SimDone(v, outcome) ==
  [sim EXCEPT ![v] = [SimIdle EXCEPT !.pc = "done", !.runs = sim[v].runs,
                                     !.matchday = sim[v].matchday,
                                     !.fixFails = sim[v].fixFails,
                                     !.standFails = sim[v].standFails,
                                     !.simulated = sim[v].simulated,
                                     !.wroteProgress = sim[v].wroteProgress,
                                     !.wroteSeason = sim[v].wroteSeason,
                                     !.outcome = outcome]]

\* no simulate-day invocation takes part
SimUnused ==
  /\ seasons = <<>> /\ progs = <<>> /\ fixtures = <<>> /\ teamSeasons = <<>>
  /\ sim = [v \in Invokers |-> SimIdle]
  /\ fails = 0

ActiveSeasonIds == SelectSeq([i \in 1..Len(seasons) |-> i], LAMBDA i : seasons[i].is_active)
ProgressIds(seasonId) ==
  SelectSeq([i \in 1..Len(progs) |-> i], LAMBDA i : progs[i].season_id = seasonId)

\* POST to the simulate-day function with {tier}: one pass of "for (const tier of tiers)"
SimStart(v) ==
  /\ sim[v].pc \in {"idle", "done"}
  /\ sim[v].runs < MaxRuns
  /\ sim' = [sim EXCEPT ![v] = [SimIdle EXCEPT !.pc = "find_season",
                                              !.runs = sim[v].runs + 1]]
  /\ UNCHANGED <<appVars, seasons, progs, fixtures, teamSeasons, fails>>

\* 1. const seasons = await ent.Season.filter({efl_tier, is_active: true})
SimFindSeason(v) ==
  /\ sim[v].pc = "find_season"
  /\ sim' = IF Len(ActiveSeasonIds) = 0
            THEN [sim EXCEPT ![v].pc = "mk_season"]
            ELSE [sim EXCEPT ![v].pc = "find_progress",
                             ![v].season = ActiveSeasonIds[1],
                             ![v].fixtures_generated =
                                seasons[ActiveSeasonIds[1]].fixtures_generated]
  /\ UNCHANGED <<appVars, seasons, progs, fixtures, teamSeasons, fails>>

\* season = await ent.Season.create({...}); newSeasonCreated; continue
SimCreateSeason(v) ==
  /\ sim[v].pc = "mk_season"
  /\ \E run \in DirectRuns :
       IF directWrite(run).ok
       THEN /\ seasons' = Append(seasons, NewSeason)
            /\ sim' = SimDone(v, "newSeasonCreated")
            /\ fails' = fails
       ELSE /\ seasons' = seasons
            /\ sim' = SimDone(v, "error")
            /\ fails' = fails + 1
  /\ UNCHANGED <<appVars, progs, fixtures, teamSeasons>>

\* where the pass goes once progress.current_matchday is known (steps 2-3)
AfterMatchday(v, progId, matchday) ==
  IF matchday < 1 THEN SimDone(v, "error")
  ELSE [sim EXCEPT ![v].prog = progId, ![v].matchday = matchday,
                   ![v].pc = IF matchday > TOTAL_MATCHDAYS THEN "complete" ELSE "fetch"]

\* 2. const progList = await ent.SeasonProgress.filter({season_id})
SimFindProgress(v) ==
  /\ sim[v].pc = "find_progress"
  /\ LET ids == ProgressIds(sim[v].season) IN
       sim' = IF Len(ids) = 0 THEN [sim EXCEPT ![v].pc = "mk_progress"]
              ELSE AfterMatchday(v, ids[1], progs[ids[1]].current_matchday)
  /\ UNCHANGED <<appVars, seasons, progs, fixtures, teamSeasons, fails>>

\* progress = await ent.SeasonProgress.create({...})
SimCreateProgress(v) ==
  /\ sim[v].pc = "mk_progress"
  /\ \E run \in DirectRuns :
       IF directWrite(run).ok
       THEN /\ progs' = Append(progs, NewProgress(sim[v].season))
            /\ sim' = AfterMatchday(v, Len(progs) + 1, 1)
            /\ fails' = fails
       ELSE /\ progs' = progs
            /\ sim' = SimDone(v, "error")
            /\ fails' = fails + 1
  /\ UNCHANGED <<appVars, seasons, fixtures, teamSeasons>>

\* 3. the season is over: Season.update, then SeasonProgress.update
SimSeasonComplete(v) ==
  /\ sim[v].pc = "complete"
  /\ \E run1 \in DirectRuns, run2 \in DirectRuns :
       /\ seasons' = IF directWrite(run1).ok
                     THEN [seasons EXCEPT ![sim[v].season].status = "completed",
                                          ![sim[v].season].is_active = FALSE]
                     ELSE seasons
       /\ progs' = IF directWrite(run1).ok /\ directWrite(run2).ok
                   THEN [progs EXCEPT ![sim[v].prog].status = "completed"]
                   ELSE progs
       /\ sim' = SimDone(v, IF directWrite(run1).ok /\ directWrite(run2).ok
                            THEN "seasonCompleted" ELSE "error")
       /\ fails' = IF directWrite(run1).ok /\ directWrite(run2).ok THEN fails
                   ELSE fails + 1
  /\ UNCHANGED <<appVars, fixtures, teamSeasons>>

\* 4. let fixtures = await ent.Fixture.filter({season_id, matchday}); when
\* empty, the 24 clubs are read and paired
SimFetchFixtures(v) ==
  /\ sim[v].pc = "fetch"
  /\ LET found == FilterFixtures(sim[v].season, sim[v].matchday) IN
       sim' = IF Len(found) = 0
              THEN IF Len(ClubIds) # 24 THEN SimDone(v, "error")
                   ELSE [sim EXCEPT ![v].pc = "gen", ![v].i = 1,
                                    ![v].pairings =
                                       getRoundRobinPairings(ClubIds, sim[v].matchday)]
              ELSE [sim EXCEPT ![v].pc = "classify", ![v].found = found]
  /\ UNCHANGED <<appVars, seasons, progs, fixtures, teamSeasons, fails>>

\* one pass of "for (const [hId, aId] of pairings)": retryWrite(Fixture.create);
\* a write that fails for good throws out of the tier's try block
SimGenFixture(v) ==
  /\ sim[v].pc = "gen"
  /\ \E run \in RetriedRuns :
       IF retryWrite(run, RETRIES).ok
       THEN /\ fixtures' = [fixtures EXCEPT ![FixtureSlot(v, sim[v].i)] =
                                            NewFixture(sim[v].season, sim[v].matchday,
                                                       sim[v].pairings[sim[v].i])]
            /\ sim' = [sim EXCEPT ![v].i = @ + 1,
                                  ![v].pc = IF sim[v].i = Len(sim[v].pairings)
                                            THEN "refetch" ELSE "gen"]
            /\ fails' = fails
       ELSE /\ fixtures' = fixtures
            /\ sim' = SimDone(v, "error")
            /\ fails' = fails + 1
  /\ UNCHANGED <<appVars, seasons, progs, teamSeasons>>

\* fixtures = await ent.Fixture.filter({season_id, matchday}) after generation
SimRefetch(v) ==
  /\ sim[v].pc = "refetch"
  /\ sim' = [sim EXCEPT ![v].found = FilterFixtures(sim[v].season, sim[v].matchday),
                        ![v].pairings = <<>>,
                        ![v].pc = IF sim[v].fixtures_generated THEN "classify" ELSE "mark"]
  /\ UNCHANGED <<appVars, seasons, progs, fixtures, teamSeasons, fails>>

\* if (!season.fixtures_generated) await ent.Season.update(season.id, {fixtures_generated: true})
SimMarkGenerated(v) ==
  /\ sim[v].pc = "mark"
  /\ \E run \in DirectRuns :
       IF directWrite(run).ok
       THEN /\ seasons' = [seasons EXCEPT ![sim[v].season].fixtures_generated = TRUE]
            /\ sim' = [sim EXCEPT ![v].pc = "classify"]
            /\ fails' = fails
       ELSE /\ seasons' = seasons
            /\ sim' = SimDone(v, "error")
            /\ fails' = fails + 1
  /\ UNCHANGED <<appVars, progs, fixtures, teamSeasons>>

\* 5-6. classify; the idempotency short-circuit; the hard gate; the goals
SimClassify(v) ==
  /\ sim[v].pc = "classify"
  /\ IF AlreadyPlayed(sim[v].found)
     THEN sim' = [sim EXCEPT ![v].pc = "sc_progress"]
     ELSE IF ~GateOpen(sim[v].found)
     THEN sim' = SimDone(v, "gate")
     ELSE \E seed \in GoalSeeds :
            sim' = [sim EXCEPT ![v].pc = "write", ![v].i = 1, ![v].simulated = TRUE,
                               ![v].results = Simulate(Upcoming(sim[v].found), seed),
                               ![v].found = <<>>]
  /\ UNCHANGED <<appVars, seasons, progs, fixtures, teamSeasons, fails>>

\* await ent.SeasonProgress.update(progress.id, {current_matchday: matchday + 1})
WriteProgressCounter(v, nextPc) ==
  \E run \in DirectRuns :
    IF directWrite(run).ok
    THEN /\ progs' = [progs EXCEPT ![sim[v].prog].current_matchday = sim[v].matchday + 1]
         /\ sim' = [sim EXCEPT ![v].pc = nextPc, ![v].wroteProgress = TRUE]
         /\ fails' = fails
    ELSE /\ progs' = progs
         /\ sim' = SimDone(v, "error")
         /\ fails' = fails + 1

\* await ent.Season.update(season.id, {current_matchday: matchday + 1,
\* current_gameweek: matchday + 1}), then the tier's summary entry
WriteSeasonCounter(v, outcome) ==
  \E run \in DirectRuns :
    IF directWrite(run).ok
    THEN /\ seasons' = [seasons EXCEPT
                          ![sim[v].season].current_matchday = sim[v].matchday + 1,
                          ![sim[v].season].current_gameweek = sim[v].matchday + 1]
         /\ sim' = [SimDone(v, outcome) EXCEPT ![v].wroteSeason = TRUE]
         /\ fails' = fails
    ELSE /\ seasons' = seasons
         /\ sim' = SimDone(v, "error")
         /\ fails' = fails + 1

\* the short-circuit, first write
SimShortCircuitProgress(v) ==
  /\ sim[v].pc = "sc_progress"
  /\ WriteProgressCounter(v, "sc_season")
  /\ UNCHANGED <<appVars, seasons, fixtures, teamSeasons>>

\* the short-circuit, second write; alreadyPlayed
SimShortCircuitSeason(v) ==
  /\ sim[v].pc = "sc_season"
  /\ WriteSeasonCounter(v, "alreadyPlayed")
  /\ UNCHANGED <<appVars, progs, fixtures, teamSeasons>>

\* ent.Fixture.update(r.fixtureId, {status: 'PLAYED', home_goals, away_goals, played_at})
PlayFixture(f, r) ==
  [f EXCEPT !.status = "PLAYED", !.home_goals = Some(r.home_goals),
            !.away_goals = Some(r.away_goals), !.played_at = Some(1)]

\* 7. one pass of "for (const r of results)": a write that fails for good is
\* counted in fixFails; after the last pass fixFails > 0 aborts the tier
SimWriteFixture(v) ==
  /\ sim[v].pc = "write"
  /\ LET r == sim[v].results[sim[v].i]
         last == sim[v].i = Len(sim[v].results) IN
     \E run \in RetriedRuns :
       LET ok == retryWrite(run, RETRIES).ok
           ff == IF ok THEN sim[v].fixFails ELSE sim[v].fixFails + 1
           s1 == [sim EXCEPT ![v].i = @ + 1, ![v].fixFails = ff,
                             ![v].attempts = retryWrite(run, RETRIES).attempts,
                             ![v].pc = IF last THEN "verify" ELSE "write"]
       IN
         /\ fixtures' = IF ok THEN [fixtures EXCEPT ![r.fixtureId] = PlayFixture(@, r)]
                        ELSE fixtures
         /\ fails' = IF ok THEN fails ELSE fails + 1
         /\ sim' = IF last /\ ff > 0
                   THEN [SimDone(v, "aborted") EXCEPT
                           ![v].fixFails = ff,
                           ![v].attempts = retryWrite(run, RETRIES).attempts]
                   ELSE s1
  /\ UNCHANGED <<appVars, seasons, progs, teamSeasons>>

\* 8. the fixtures are read back; fewer or more than twelve played aborts
SimVerify(v) ==
  /\ sim[v].pc = "verify"
  /\ sim' = IF Len(Played(FilterFixtures(sim[v].season, sim[v].matchday))) # MATCHES_PER_MD
            THEN SimDone(v, "verify")
            ELSE [sim EXCEPT ![v].pc = "ts_fetch"]
  /\ UNCHANGED <<appVars, seasons, progs, fixtures, teamSeasons, fails>>

\* 9. let teamSeasons = await ent.TeamSeason.filter({season_id})
SimFetchTeamSeasons(v) ==
  /\ sim[v].pc = "ts_fetch"
  /\ LET found == FilterTeamSeasons(sim[v].season) IN
       sim' = IF Len(found) = 0
              THEN [sim EXCEPT ![v].pc = "ts_create"]
              ELSE [sim EXCEPT ![v].pc = "standings",
                               ![v].updates = ComputeUpdates(found, sim[v].results),
                               ![v].results = <<>>]
  /\ UNCHANGED <<appVars, seasons, progs, fixtures, teamSeasons, fails>>

\* the Set clubIds in insertion order: home and away of each result in turn
ResultClubs(results) ==
  Dedup([k \in 1..(2 * Len(results)) |->
           IF k % 2 = 1 THEN results[(k + 1) \div 2].homeClubId
           ELSE results[k \div 2].awayClubId])

\* the loop "for (const cid of clubIds)" of retryWrite(TeamSeason.create) and
\* the read that follows it; the loop stops at the first write that fails
\* for good, which throws out of the tier's try block
SimCreateTeamSeasons(v) ==
  /\ sim[v].pc = "ts_create"
  /\ LET cids == ResultClubs(sim[v].results)
         rows(n) == [k \in 1..n |-> NewTeamSeason(sim[v].season, cids[k])]
     IN
     \/ /\ teamSeasons' = teamSeasons \o rows(Len(cids))
        /\ LET created == SelectSeq(Entities(teamSeasons'),
                                     LAMBDA e : e.row.season_id = sim[v].season)
           IN sim' = [sim EXCEPT ![v].pc = "standings",
                                 ![v].updates = ComputeUpdates(created, sim[v].results),
                                 ![v].results = <<>>]
        /\ fails' = fails
     \/ /\ fails < MaxFails
        /\ \E n \in 0..(Len(cids) - 1) :
             teamSeasons' = teamSeasons \o rows(n)
        /\ sim' = SimDone(v, "error")
        /\ fails' = fails + 1
  /\ UNCHANGED <<appVars, seasons, progs, fixtures>>

\* which writes of the standings loop fail for good: none, one or two
FailSets(ids, budget) ==
  {{}} \cup (IF budget >= 1 THEN {{a} : a \in ids} ELSE {})
       \cup (IF budget >= 2 THEN {{a, b} : a \in ids, b \in ids} ELSE {})

\* 10. the loop "for (const tsId of Object.keys(updates))" of
\* retryWrite(TeamSeason.update); standFails > 0 aborts the tier
SimUpdateStandings(v) ==
  /\ sim[v].pc = "standings"
  /\ \E F \in FailSets(DOMAIN sim[v].updates, MaxFails - fails) :
       /\ teamSeasons' = [i \in 1..Len(teamSeasons) |->
                            IF i \in DOMAIN sim[v].updates /\ i \notin F
                            THEN WriteStanding(teamSeasons[i], sim[v].updates[i])
                            ELSE teamSeasons[i]]
       /\ fails' = fails + Cardinality(F)
       /\ sim' = IF StandingsFailed(Cardinality(F))
                 THEN [SimDone(v, "aborted") EXCEPT ![v].standFails = Cardinality(F)]
                 ELSE [sim EXCEPT ![v].pc = "adv_progress", ![v].updates = NoUpdates,
                                  ![v].standFails = Cardinality(F)]
  /\ UNCHANGED <<appVars, seasons, progs, fixtures>>

\* 11. advance, first write
SimAdvanceProgress(v) ==
  /\ sim[v].pc = "adv_progress"
  /\ WriteProgressCounter(v, "adv_season")
  /\ UNCHANGED <<appVars, seasons, fixtures, teamSeasons>>

\* 11. advance, second write; ok
SimAdvanceSeason(v) ==
  /\ sim[v].pc = "adv_season"
  /\ WriteSeasonCounter(v, "ok")
  /\ UNCHANGED <<appVars, progs, fixtures, teamSeasons>>

SweepIdle ==
  [pc |-> "idle", force |-> FALSE, today |-> 0, state |-> None, shouldRun |-> FALSE,
   ran |-> FALSE, loaded |-> FALSE, snap |-> None, toComplete |-> <<>>,
   toPromote |-> <<>>, ci |-> 1, ti |-> 1, seen |-> "", wrote |-> {}, errors |-> <<>>,
   overlapped |-> FALSE]

\* runTransferSweep(force): const today = utcDayNumber(); BEGIN
SweepBegin(w) ==
  /\ sw[w].pc = "idle"
  /\ \E force \in BOOLEAN :
       sw' = [sw EXCEPT ![w] = [@ EXCEPT !.pc = "lock", !.force = force,
                                          !.today = utcDayNumber(nowMs),
                                          !.overlapped =
                                             \E o \in Sweepers \ {w} :
                                               sw[o].pc \notin {"idle", "done", "crashed"}]]
  /\ UNCHANGED <<db, locks, advisory, tick, cl, db0, simVars>>

\* acquireAdvisoryLock(client, SWEEP_ADVISORY_LOCK)
SweepAcquire(w) ==
  /\ sw[w].pc = "lock"
  /\ AdvisoryFree(w)
  /\ advisory' = w
  /\ sw' = [sw EXCEPT ![w].pc = "select"]
  /\ UNCHANGED <<db, locks, tick, cl, db0, simVars>>

\* SELECT last_sweep_utc_day, run_count FROM sweep_state WHERE id = 1 FOR UPDATE
SweepSelect(w) ==
  /\ sw[w].pc = "select"
  /\ LockFree(<<"sweep_state", "1">>, w)
  /\ locks' = locks \cup {<<<<"sweep_state", "1">>, w>>}
  /\ sw' = [sw EXCEPT ![w].pc = "decide", ![w].state = Some(db.sweep_state)]
  /\ UNCHANGED <<db, advisory, tick, cl, db0, simVars>>

\* the due/already-ran checks, the UPDATE, COMMIT (the locks are released)
SweepDecide(w) ==
  /\ sw[w].pc = "decide"
  /\ LET run == ShouldRun(sw[w].force, Val(sw[w].state), sw[w].today) IN
       /\ db' = IF run THEN StampSweepState(db, sw[w].today) ELSE db
       /\ sw' = [sw EXCEPT ![w].pc = AfterPhase1(run), ![w].shouldRun = run,
                           ![w].ran = run]
  /\ locks' = locks \ HeldBy(w)
  /\ advisory' = IF advisory = w THEN NoTx ELSE advisory
  /\ UNCHANGED <<tick, cl, db0, simVars>>

\* Phases 2 and 3: load the active players and classify them
SweepLoad(w) ==
  /\ sw[w].pc = "load"
  /\ LET active == ActivePlayers(db)
         snap == db.players IN
       sw' = [sw EXCEPT ![w].pc = "complete", ![w].loaded = TRUE,
                        ![w].snap = Some(snap),
                        ![w].toComplete = ToComplete(snap, active),
                        ![w].toPromote = ToPromote(snap, active)]
  /\ UNCHANGED <<db, locks, advisory, tick, cl, db0, simVars>>

\* Phase 4, completePlayerCareer(p.id): SELECT * FROM players WHERE id = $1 FOR UPDATE
SweepCompleteLock(w) ==
  /\ sw[w].pc = "complete"
  /\ sw[w].ci <= Len(sw[w].toComplete)
  /\ LET p == sw[w].toComplete[sw[w].ci] IN
       /\ LockFree(<<"players", p>>, w)
       /\ locks' = locks \cup {<<<<"players", p>>, w>>}
       /\ sw' = [sw EXCEPT ![w].pc = "completing", ![w].seen = db.players[p].career_status]
  /\ UNCHANGED <<db, advisory, tick, cl, db0, simVars>>

\* Phase 4: the rest of the completion transaction; a throw is collected in errors
SweepCompleteCommit(w) ==
  /\ sw[w].pc = "completing"
  /\ LET p == sw[w].toComplete[sw[w].ci] IN
     \E m \in MembershipChoices(db, db.players[p].user_id), failAt \in FailPoints :
       LET out == completePlayerCareer(db, p, sw[w].seen, m, failAt) IN
         /\ (~IsNull(m) /\ ~out.threw /\ ~out.already_completed)
              => LockFree(<<"squads", Val(m)>>, w)
         /\ db' = withTransaction(db, out)
         /\ sw' = [sw EXCEPT ![w].pc = "complete", ![w].ci = @ + 1,
                             ![w].wrote = IF db' # db THEN @ \cup {p} ELSE @,
                             ![w].errors = CollectError(@, [player_id |-> p, league |-> ""],
                                                        out.threw)]
  /\ locks' = locks \ HeldBy(w)
  /\ UNCHANGED <<advisory, tick, cl, db0, simVars>>

\* Phase 4 is over
SweepCompletionsDone(w) ==
  /\ sw[w].pc = "complete"
  /\ sw[w].ci > Len(sw[w].toComplete)
  /\ sw' = [sw EXCEPT ![w].pc = "promote"]
  /\ UNCHANGED <<db, locks, advisory, tick, cl, db0, simVars>>

\* Phase 5: one batched UPDATE per target league; a throw of the query is
\* collected in errors
SweepPromote(w) ==
  /\ sw[w].pc = "promote"
  /\ LET snap == Val(sw[w].snap)
         targets == Targets(snap, sw[w].toPromote) IN
       /\ sw[w].ti <= Len(targets)
       /\ LET ids == IdsFor(snap, sw[w].toPromote, targets[sw[w].ti]) IN
          \E threw \in BOOLEAN :
            /\ ~threw => \A p \in ids : LockFree(<<"players", p>>, w)
            /\ db' = IF threw THEN db ELSE BatchPromote(db, targets[sw[w].ti], ids)
            /\ sw' = [sw EXCEPT ![w].ti = @ + 1,
                                ![w].wrote = @ \cup {p \in ids : db'.players[p] # db.players[p]},
                                ![w].errors =
                                   CollectError(@, [player_id |-> "",
                                                    league |-> targets[sw[w].ti]], threw)]
  /\ UNCHANGED <<locks, advisory, tick, cl, db0, simVars>>

\* Phase 6: the summary is returned
SweepFinish(w) ==
  /\ sw[w].pc = "promote"
  /\ sw[w].ti > Len(Targets(Val(sw[w].snap), sw[w].toPromote))
  /\ sw' = [sw EXCEPT ![w].pc = "done"]
  /\ UNCHANGED <<db, locks, advisory, tick, cl, db0, simVars>>

\* the process running runTransferSweep dies after Phase 1 has committed and
\* before Phase 6: the open completion transaction, if any, is rolled back
SweepCrash(w) ==
  /\ sw[w].pc \in {"load", "complete", "completing", "promote"}
  /\ sw' = [sw EXCEPT ![w].pc = "crashed"]
  /\ locks' = locks \ HeldBy(w)
  /\ UNCHANGED <<db, advisory, tick, cl, db0, simVars>>

\* time passes
Tick ==
  /\ tick < MaxTick
  /\ tick' = tick + 1
  /\ UNCHANGED <<db, locks, advisory, sw, cl, db0, simVars>>

\* ----------------------------------------------------- initial database



PlayerRow(u, league, rating) ==
  [user_id |-> u, display_name |-> None, overall_rating |-> rating,
   current_league |-> league, career_status |-> "active",
   career_started_at |-> (StartDay - 1) * MS_PER_DAY,
   career_completed_at |-> None]

ZeroStats ==
  [present |-> TRUE, completions_count |-> 0, total_days_sum |-> 0,
   best_days_to_premier |-> None, avg_days_to_premier |-> None]

\* the profiles the registered players are drawn from
Profiles ==
  {<<"league_two", 72>>, <<"league_one", 60>>, <<"championship", 88>>}

\* u1 leads squad s1, u2 has no squad; each coach has one registered player
BaseDb(prof1, prof2, sweepState) ==
  [sweep_state |-> sweepState,
   players |-> [p \in Players |->
                  IF p = "p1" THEN PlayerRow("u1", prof1[1], prof1[2])
                  ELSE PlayerRow("u2", prof2[1], prof2[2])],
   career_completions |-> <<>>,
   coach_stats |-> [u \in Users |-> ZeroStats],
   squads |-> [s \in Squads |->
                 IF s = "s1" THEN [NoSquad EXCEPT !.exists = TRUE, !.leader_user_id = "u1"]
                 ELSE NoSquad],
   members |-> [k \in Squads \X Users |->
                  IF k = <<"s1", "u1">>
                  THEN [status |-> "active", role |-> "leader", points_contributed |-> 0]
                  ELSE NoMember],
   requests |-> <<>>,
   facilities |-> [s \in Squads |-> IF s = "s1" THEN NewFacilities ELSE NoFacilities],
   spend |-> <<>>,
   point_events |-> <<>>]

FirstDueDay == StartDay + ((4 - (StartDay % 4)) % 4)

\* sweep_state before the run: never swept, swept on an earlier day, or
\* already swept on the due day the clock reaches
InitSweepStates ==
  {[last_sweep_utc_day |-> None, last_sweep_at |-> None, run_count |-> 0],
   [last_sweep_utc_day |-> Some(StartDay - 3), last_sweep_at |-> Some(0), run_count |-> 1],
   [last_sweep_utc_day |-> Some(FirstDueDay), last_sweep_at |-> Some(0), run_count |-> 1]}

\* ------------- auth middleware (simulateDayCore.jsx), functions/simulateDayCron.ts

\* a production deployment with every secret set
Deployed ==
  [NODE_ENV |-> Some("production"), AUTH_JWT_SECRET |-> Some("k"),
   BRAIN_HMAC_SECRET |-> Some("k"), CRON_SECRET |-> Some("k")]

\* an environment variable is unset, empty, or holds the secret k
EnvValues == {None, Some(""), Some("k")}
NodeEnvs == {None, Some("development"), Some("production")}

\* !x of an optional string: undefined, null and "" are falsy
Falsy(o) == IsNull(o) \/ o = Some("")

\* a request that carries nothing
NoRequest ==
  [authorization |-> None, x_dev_user_id |-> None, x_brain_timestamp |-> None,
   x_brain_signature |-> None, x_cron_secret |-> None, user_id |-> None]

\* Authorization headers: absent, another scheme, or Bearer with a token
Authorizations ==
  {None, Some([scheme |-> "Basic", cred |-> "k"])}
    \cup {Some([scheme |-> "Bearer", cred |-> t]) :
            t \in {"", "k", "x", "jwt-k-u1", "jwt-k-nosub", "jwt-x-u1"}}

\* authHeader?.startsWith("Bearer ") ? authHeader.slice(7) : null
BearerOf(authHeader) ==
  IF ~IsNull(authHeader) /\ Val(authHeader).scheme = "Bearer"
  THEN Some(Val(authHeader).cred) ELSE None

\* jwt.verify(token, secret): the payload of a token signed with the secret,
\* or a throw
jwtVerify(token, secret) ==
  IF secret = "k" /\ token = "jwt-k-u1" THEN [threw |-> FALSE, sub |-> Some("u1")]
  ELSE IF secret = "k" /\ token = "jwt-k-nosub" THEN [threw |-> FALSE, sub |-> None]
  ELSE IF secret = "x" /\ token = "jwt-x-u1" THEN [threw |-> FALSE, sub |-> Some("u1")]
  ELSE [threw |-> TRUE, sub |-> None]

Reject(status) == [next |-> FALSE, status |-> status, userId |-> None]
Pass(userId) == [next |-> TRUE, status |-> 0, userId |-> userId]

\* requireJwt with the development bypass removed
requireJwtNoBypass(e, req) ==
  IF IsNull(BearerOf(req.authorization)) THEN Reject(401)
  ELSE IF Falsy(e.AUTH_JWT_SECRET) THEN Reject(503)
  ELSE LET payload == jwtVerify(Val(BearerOf(req.authorization)), Val(e.AUTH_JWT_SECRET))
       IN IF payload.threw \/ Falsy(payload.sub) THEN Reject(401)
          ELSE Pass(payload.sub)

\* requireJwt(req, res, next)
requireJwt(e, req) ==
  IF e.NODE_ENV # Some("production") /\ ~Falsy(req.x_dev_user_id)
  THEN Pass(req.x_dev_user_id)
  ELSE IF IsNull(BearerOf(req.authorization)) THEN Reject(401)
  ELSE IF Falsy(e.AUTH_JWT_SECRET) THEN Reject(503)
  ELSE LET payload == jwtVerify(Val(BearerOf(req.authorization)), Val(e.AUTH_JWT_SECRET))
       IN IF payload.threw \/ Falsy(payload.sub) THEN Reject(401)
          ELSE Pass(payload.sub)

\* "sha256=" + HMAC(secret, ts + "." + body)
hmacOf(secret, ts, body) == <<secret, ts, body>>

\* X-Brain-Timestamp is given by its age in ms at arrival
Timestamps == {None, Some(0), Some(HMAC_MAX_AGE_MS + 1)}
Signatures ==
  {None} \cup {Some(hmacOf(k, ts, u)) : k \in {"k", "x", ""}, ts \in {Some(0)},
                                       u \in {None, Some("u1")}}

\* requireHmac(req, res, next)
requireHmac(e, req) ==
  IF Falsy(e.BRAIN_HMAC_SECRET) THEN Reject(503)
  ELSE IF IsNull(req.x_brain_timestamp) \/ IsNull(req.x_brain_signature) THEN Reject(401)
  ELSE IF Val(req.x_brain_timestamp) > HMAC_MAX_AGE_MS THEN Reject(401)
  ELSE IF Val(req.x_brain_signature)
            # hmacOf(Val(e.BRAIN_HMAC_SECRET), req.x_brain_timestamp, req.user_id)
  THEN Reject(401)
  ELSE IF Falsy(req.user_id) THEN Reject(400)
  ELSE Pass(req.user_id)

\* requireCronSecret(req, res, next)
requireCronSecret(e, req) ==
  IF Falsy(e.CRON_SECRET) THEN Reject(503)
  ELSE IF Falsy(BearerOf(req.authorization)) THEN Reject(401)
  ELSE IF BearerOf(req.authorization) # e.CRON_SECRET THEN Reject(401)
  ELSE Pass(None)

\* const MANUAL_TEST_MODE = true
MANUAL_TEST_MODE == TRUE

\* x || ''
OrEmpty(o) == IF Falsy(o) THEN "" ELSE Val(o)

\* the check at the head of the Deno.serve handler of simulateDayCron.ts;
\* passing means simulateDayCore is called
simulateDayCron(e, req) ==
  LET provided == OrEmpty(req.x_cron_secret)
      expected == OrEmpty(e.CRON_SECRET)
  IN IF ~MANUAL_TEST_MODE /\ (expected = "" \/ provided # expected) THEN Reject(401)
     ELSE Pass(None)

Gate(c, gate, req, out) ==
  /\ CanCall(c)
  /\ cl' = [cl EXCEPT ![c] =
              [CallerIdle EXCEPT !.pc = "done", !.op = gate, !.arg = req, !.result = out,
                                 !.calls = cl[c].calls + 1]]
  /\ UNCHANGED <<db, locks, advisory, tick, sw, db0, simVars>>

\* a request reaches a route behind requireJwt
RequireJwt(c) ==
  \E a \in Authorizations, dev \in {None, Some(""), Some("u1")} :
    LET req == [NoRequest EXCEPT !.authorization = a, !.x_dev_user_id = dev]
    IN Gate(c, "requireJwt", req, requireJwt(env, req))

\* a request reaches a route behind requireHmac
RequireHmac(c) ==
  \E ts \in Timestamps, sig \in Signatures, u \in {None, Some("u1")} :
    LET req == [NoRequest EXCEPT !.x_brain_timestamp = ts, !.x_brain_signature = sig,
                                 !.user_id = u]
    IN Gate(c, "requireHmac", req, requireHmac(env, req))

\* a request reaches a route behind requireCronSecret
RequireCronSecret(c) ==
  \E a \in Authorizations :
    LET req == [NoRequest EXCEPT !.authorization = a]
    IN Gate(c, "requireCronSecret", req, requireCronSecret(env, req))

\* a request reaches the simulateDayCron function
SimulateDayCron(c) ==
  \E x \in EnvValues :
    LET req == [NoRequest EXCEPT !.x_cron_secret = x]
    IN Gate(c, "simulateDayCron", req, simulateDayCron(env, req))

\* ------------------------------------------- leaderboard (unnamed/part_004)

\* the coaches of the leaderboard specification are numbered
BoardCoaches == 1..(MaxCoaches + 1)

NoStats == [ZeroStats EXCEPT !.present = FALSE]

\* x sorts before y under ASC NULLS LAST
NullsLastLess(x, y) == ~IsNull(x) /\ (IsNull(y) \/ Val(x) < Val(y))

\* an order with the slowest best run first
PrecedesBestDescending(a, b) ==
  \/ a.completions_count > b.completions_count
  \/ /\ a.completions_count = b.completions_count
     /\ \/ NullsLastLess(b.best_days_to_premier, a.best_days_to_premier)
        \/ /\ a.best_days_to_premier = b.best_days_to_premier
           /\ NullsLastLess(a.avg_days_to_premier, b.avg_days_to_premier)

\* ORDER BY completions_count DESC, best_days_to_premier ASC NULLS LAST,
\*          avg_days_to_premier ASC NULLS LAST: row a sorts before row b
Precedes(a, b) ==
  \/ a.completions_count > b.completions_count
  \/ /\ a.completions_count = b.completions_count
     /\ \/ NullsLastLess(a.best_days_to_premier, b.best_days_to_premier)
        \/ /\ a.best_days_to_premier = b.best_days_to_premier
           /\ NullsLastLess(a.avg_days_to_premier, b.avg_days_to_premier)

\* the order in which the database returns rows that tie on the three keys
\* is not defined; the builds considered return them by user_id, ascending
\* or descending
TieOrders == {"asc", "desc"}

SortsBefore(stats, u, v, tie) ==
  \/ Precedes(stats[u], stats[v])
  \/ /\ ~Precedes(stats[v], stats[u])
     /\ IF tie = "asc" THEN u < v ELSE u > v

\* ROW_NUMBER() OVER (ORDER BY ...) AS rank, for every row of coach_stats
RowNumbers(stats, present, tie) ==
  SelectSeq([u \in 1..(MaxCoaches + 1) |->
               IF u \in present
               THEN 1 + Cardinality({v \in present : SortsBefore(stats, v, u, tie)})
               ELSE 0],
            LAMBDA r : TRUE)

\* formatRow(r)
formatRow(stats, u, rank) ==
  [rank |-> rank, user_id |-> u,
   completions_count |-> stats[u].completions_count,
   best_days_to_premier |-> stats[u].best_days_to_premier,
   avg_days_to_premier |-> stats[u].avg_days_to_premier]

\* the entry shown for a caller with no coach_stats row
ZeroEntry(u, rank) ==
  [rank |-> rank, user_id |-> u, completions_count |-> 0,
   best_days_to_premier |-> None, avg_days_to_premier |-> None]

\* getGlobalLeaderboard(userId): the ranked query (rows with rank <= 100 or
\* the caller's, in the outer ORDER BY), top100, myEntry; insert: the
\* zeroed coach_stats row is to be inserted before the function returns
getGlobalLeaderboard(d, userId, tie, outerTie) ==
  LET stats == d.coach_stats
      present == {u \in BoardCoaches : stats[u].present}
      rank == RowNumbers(stats, present, tie)
      top == {u \in present : rank[u] <= TOP_N}
      place == SelectSeq([u \in 1..(MaxCoaches + 1) |->
                            IF u \in top
                            THEN 1 + Cardinality({v \in top :
                                                    SortsBefore(stats, v, u, outerTie)})
                            ELSE 0],
                         LAMBDA k : TRUE)
      top100 == [k \in 1..Cardinality(top) |->
                   LET u == CHOOSE u \in top : place[u] = k
                   IN formatRow(stats, u, rank[u])]
  IN
  IF present = {}
  THEN [leaderboard |-> <<>>, my_entry |-> ZeroEntry(userId, 1), total_coaches |-> 0,
        insert |-> TRUE]
  ELSE [leaderboard |-> top100,
        my_entry |-> IF userId \in present THEN formatRow(stats, userId, rank[userId])
                     ELSE ZeroEntry(userId, Cardinality(present) + 1),
        total_coaches |-> Cardinality(present),
        insert |-> userId \notin present]

\* the coaches that ask for the board: the first, the last of the top 100,
\* the first outside it, the 137th, the last, and one with no row
BoardUsers(d) ==
  LET n == Cardinality({u \in BoardCoaches : d.coach_stats[u].present})
  IN {u \in {1, TOP_N, TOP_N + 1, 137, n} : u >= 1 /\ u <= n} \cup ({n + 1} \cap BoardCoaches)

\* GET /api/leaderboard/global: the ranked query
BoardQuery(c) ==
  /\ CanCall(c)
  /\ cl[c].calls < MaxBoardCalls
  /\ \E u \in BoardUsers(db), tie \in TieOrders, outerTie \in TieOrders :
       LET out == getGlobalLeaderboard(db, u, tie, outerTie) IN
         cl' = [cl EXCEPT ![c] =
                  [CallerIdle EXCEPT !.pc = IF out.insert THEN "lb_insert" ELSE "done",
                                     !.op = "leaderboard", !.user = u, !.result = out,
                                     !.calls = cl[c].calls + 1]]
  /\ UNCHANGED <<db, locks, advisory, tick, sw, db0, simVars>>

\* INSERT INTO coach_stats (user_id) VALUES ($1) ON CONFLICT (user_id) DO NOTHING
BoardInsert(c) ==
  /\ cl[c].pc = "lb_insert"
  /\ db' = IF db.coach_stats[cl[c].user].present THEN db
           ELSE [db EXCEPT !.coach_stats[cl[c].user] = ZeroStats]
  /\ cl' = [cl EXCEPT ![c].pc = "done"]
  /\ UNCHANGED <<locks, advisory, tick, sw, db0, simVars>>

\* ------------------------------------------ friend groups (groups.js 13-64)

\* store.groups and store.groupMembers of data-store.js when the module loads;
\* a group's id (genId) is its position
StoreAtLoad == [groups |-> <<>>, groupMembers |-> <<>>]

\* what generateInviteCode can return: Math.random().toString(36).substring(2, 8)
InviteCodes == {"A1B2C3", "D4E5F6", "G7H8I9"}

\* the names a createGroup request can carry
GroupNames == {"", "ab"}

\* the streams of codes successive generateInviteCode() calls can yield:
\* a code repeated for the first n draws, another (or the same) one afterwards
DrawStreams ==
  {[k \in 1..INVITE_ATTEMPTS |-> IF k <= n THEN a ELSE b] :
     n \in {0, 1, INVITE_ATTEMPTS - 1, INVITE_ATTEMPTS},
     a \in InviteCodes, b \in InviteCodes}

\* do { code = generateInviteCode(); attempts++ }
\* while (existing.has(code) && attempts < 20); return code
RECURSIVE inviteLoop(_, _, _)
inviteLoop(existing, draws, attempts) ==
  LET code == draws[attempts + 1] IN
    IF code \in existing /\ attempts + 1 < INVITE_ATTEMPTS
    THEN inviteLoop(existing, draws, attempts + 1)
    ELSE code

uniqueInviteCode(st, draws) ==
  inviteLoop({st.groups[g].invite_code : g \in 1..Len(st.groups)}, draws, 0)

\* createGroup(userId, {name}) of the in-memory store; name.trim().length < 2 throws
createGroupInMemory(st, userId, name, draws) ==
  IF Len(name) < 2
  THEN [store |-> st, threw |-> TRUE]
  ELSE LET group == [id |-> Len(st.groups) + 1, name |-> name,
                     invite_code |-> uniqueInviteCode(st, draws),
                     created_by |-> userId]
           member == [group_id |-> group.id, user_id |-> userId, role |-> "admin"]
       IN [store |-> [groups |-> Append(st.groups, group),
                      groupMembers |-> Append(st.groupMembers, member)],
           threw |-> FALSE]

\* a createGroup request served from the in-memory store (synchronous)
CreateGroupInMemory(c) ==
  /\ CanCall(c)
  /\ \E u \in Users, name \in GroupNames, draws \in DrawStreams :
       LET out == createGroupInMemory(store, u, name, draws) IN
         /\ store' = out.store
         /\ cl' = [cl EXCEPT ![c] =
                     [CallerIdle EXCEPT !.pc = "done", !.op = "createGroup", !.user = u,
                                        !.arg = draws[INVITE_ATTEMPTS],
                                        !.result = IF out.threw THEN "error" ELSE "ok",
                                        !.calls = cl[c].calls + 1]]
  /\ UNCHANGED <<db, locks, advisory, tick, sw, db0, seasons, progs, fixtures,
                 teamSeasons, sim, fails, env, SEASON>>

\* ------------------- the in-memory EFL leagues (simulateDayCore.jsx 500-804)

\* Object.entries(LEAGUE_META), in insertion order
LeagueKeys == <<"championship", "league1", "league2">>

\* the default clubs of each league; a club is named by its league and its
\* place in the list
TEAMS == [k \in Range(LeagueKeys) |-> [i \in 1..NUM_CLUBS |-> <<k, i>>]]

\* const SEASON = {...} when the module loads
SeasonAtLoad ==
  [currentMatchday |-> 0, totalMatchdays |-> 46, startDate |-> None,
   initialized |-> FALSE, leagues |-> <<>>]

\* neither in-memory module has been used
MemoryUnused == store = StoreAtLoad /\ SEASON = SeasonAtLoad

ScheduledFixture(home, away, matchday) ==
  [home |-> home, away |-> away, matchday |-> matchday, played |-> FALSE,
   homeGoals |-> None, awayGoals |-> None]

\* generateFixtures(teams): rotating = [1 .. n-1] has been rotated round times
\* ("move last to front") when round + 1 is laid out; the fixed club hosts
\* rotating[0], rotating[i] hosts rotating[n - 1 - i]; the second half is
\* the first with home and away swapped, n - 1 matchdays later
generateFixtures(teams) ==
  LET n == Len(teams)
      perRound == n \div 2
      rotatingAt(round) == Rotate([i \in 1..(n - 1) |-> i], round)
      firstHalf ==
        [idx \in 1..((n - 1) * perRound) |->
           LET round == (idx - 1) \div perRound
               i == (idx - 1) % perRound
               rotating == rotatingAt(round)
           IN IF i = 0
              THEN ScheduledFixture(teams[1], teams[rotating[1] + 1], round + 1)
              ELSE ScheduledFixture(teams[rotating[i + 1] + 1],
                                    teams[rotating[n - 1 - i + 1] + 1], round + 1)]
      secondHalf ==
        [idx \in 1..Len(firstHalf) |->
           ScheduledFixture(firstHalf[idx].away, firstHalf[idx].home,
                            firstHalf[idx].matchday + (n - 1))]
  IN firstHalf \o secondHalf

\* the fixtures of the default clubs
DefaultFixtures == [k \in Range(LeagueKeys) |-> generateFixtures(TEAMS[k])]

\* resetAndSync() as the endpoints call it, without custom teams
resetAndSync(S, now) ==
  [currentMatchday |-> 0, startDate |-> Some(now), initialized |-> TRUE,
   leagues |-> [k \in Range(LeagueKeys) |->
                  [teams |-> TEAMS[k], fixtures |-> DefaultFixtures[k]]],
   totalMatchdays |-> (Len(TEAMS[LeagueKeys[1]]) - 1) * 2]

\* the scores poissonRandom hands to the fixtures of a matchday: home and away
\* goals, each at most 7
Scores == {<<0, 0>>, <<7, 1>>}
LaterScore == <<1, 2>>
ScoresAt(matchday) == IF matchday <= MaxDrawnDays THEN Scores ELSE {LaterScore}

\* simulateMatch(fixture)
simulateMatch(fixture, score) ==
  [fixture EXCEPT !.homeGoals = Some(score[1]), !.awayGoals = Some(score[2]),
                  !.played = TRUE]

\* the season never counts as finished
seasonCompleteNever(S) == FALSE

\* if (SEASON.currentMatchday >= SEASON.totalMatchdays) return {success: false, ...}
seasonComplete(S) == S.currentMatchday >= S.totalMatchdays

\* simulateMatchday(): auto-init, the end-of-season return, else one more
\* matchday played in every league
simulateMatchday(S, now, score) ==
  LET S1 == IF ~S.initialized THEN resetAndSync(S, now) ELSE S IN
    IF seasonComplete(S1)
    THEN [SEASON |-> S1, success |-> FALSE]
    ELSE LET md == S1.currentMatchday + 1 IN
      [SEASON |-> [S1 EXCEPT
                     !.currentMatchday = md,
                     !.leagues = [k \in DOMAIN S1.leagues |->
                       [S1.leagues[k] EXCEPT !.fixtures =
                          [f \in DOMAIN @ |-> IF @[f].matchday = md
                                              THEN simulateMatch(@[f], score)
                                              ELSE @[f]]]]],
       success |-> TRUE]

\* POST /api/seasons/reset-sync
ResetAndSync(c) ==
  /\ SEASON' = resetAndSync(SEASON, tick)
  /\ cl' = [cl EXCEPT ![c] = [CallerIdle EXCEPT !.pc = "done", !.op = "reset-sync",
                                                !.result = "success", !.n = 0]]
  /\ UNCHANGED <<db, locks, advisory, tick, sw, db0, seasons, progs, fixtures,
                 teamSeasons, sim, fails, env, store>>

\* POST /api/seasons/simulate-day
SimulateMatchday(c) ==
  /\ \E score \in ScoresAt(SEASON.currentMatchday + 1) :
       LET out == simulateMatchday(SEASON, tick, score) IN
         /\ SEASON' = out.SEASON
         /\ cl' = [cl EXCEPT ![c] =
                     [CallerIdle EXCEPT !.pc = "done", !.op = "simulate-day",
                                        !.result = IF out.success THEN "success"
                                                   ELSE "season complete",
                                        !.n = out.SEASON.currentMatchday]]
  /\ UNCHANGED <<db, locks, advisory, tick, sw, db0, seasons, progs, fixtures,
                 teamSeasons, sim, fails, env, store>>

\* ------------------------------- specification: the in-memory modules

InitModules ==
  /\ db = BaseDb(<<"league_two", 72>>, <<"league_two", 72>>,
                 CHOOSE st \in InitSweepStates : st.run_count = 0)
  /\ db0 = db
  /\ locks = {}
  /\ advisory = NoTx
  /\ tick = 0
  /\ sw = [w \in Sweepers |-> SweepIdle]
  /\ cl = [c \in Callers |-> CallerIdle]
  /\ SimUnused
  /\ env = Deployed
  /\ MemoryUnused

\* groups created on the in-memory store
NextGroups == \E c \in Callers : CreateGroupInMemory(c)

SpecGroups == InitModules /\ [][NextGroups]_vars

\* the season endpoints, and the clock
NextLeague ==
  \/ ResetAndSync("c1")
  \/ SimulateMatchday("c1")
  \/ Tick

SpecLeague == InitModules /\ [][NextLeague]_vars

\* ------------------------------------------- specification: coach stats

\* career_started_at, in days: before the server's time, equal to it, or
\* after it (stamped by a clock that runs ahead of the server's)
CareerStarts == {StartDay - 3, StartDay - 1, StartDay, StartDay + 1}

\* both players are ready to complete; p2 belongs to u1 as well or to u2;
\* a coach has a zeroed coach_stats row or none yet
InitCoach ==
  /\ \E owner2 \in Users, start1 \in CareerStarts, start2 \in CareerStarts,
        registered \in BOOLEAN :
       db = [BaseDb(<<"championship", 88>>, <<"championship", 88>>,
                    CHOOSE st \in InitSweepStates : st.run_count = 0)
               EXCEPT !.players["p1"].career_started_at = start1 * MS_PER_DAY,
                      !.players["p2"].career_started_at = start2 * MS_PER_DAY,
                      !.players["p2"].user_id = owner2,
                      !.coach_stats = [u \in Users |->
                                         [ZeroStats EXCEPT !.present = registered]]]
  /\ db0 = db
  /\ locks = {}
  /\ advisory = NoTx
  /\ tick = 0
  /\ sw = [w \in Sweepers |-> SweepIdle]
  /\ cl = [c \in Callers |-> CallerIdle]
  /\ SimUnused
  /\ env = Deployed
  /\ MemoryUnused

\* completions through the database, and the clock
NextCoach ==
  \/ \E c \in Callers :
       \/ CompleteCall(c)
       \/ CompleteLock(c)
       \/ CompleteCommit(c)
  \/ Tick

SpecCoach == InitCoach /\ [][NextCoach]_vars

\* completions on the in-memory store, and the clock
NextMemory ==
  \/ \E c \in Callers : CompleteInMemory(c)
  \/ Tick

SpecMemory == InitCoach /\ [][NextMemory]_vars

\* ---------------------------------------------------- specification: auth

InitAuth ==
  /\ env \in [NODE_ENV : NodeEnvs, AUTH_JWT_SECRET : EnvValues,
              BRAIN_HMAC_SECRET : EnvValues, CRON_SECRET : EnvValues]
  /\ MemoryUnused
  /\ db = BaseDb(<<"league_two", 72>>, <<"league_two", 72>>,
                 CHOOSE st \in InitSweepStates : st.run_count = 0)
  /\ db0 = db
  /\ locks = {}
  /\ advisory = NoTx
  /\ tick = 0
  /\ sw = [w \in Sweepers |-> SweepIdle]
  /\ cl = [c \in Callers |-> CallerIdle]
  /\ seasons = <<>> /\ progs = <<>> /\ fixtures = <<>> /\ teamSeasons = <<>>
  /\ sim = [v \in Invokers |-> SimIdle]
  /\ fails = 0

NextAuth ==
  \E c \in {"c1"} :
    \/ RequireJwt(c)
    \/ RequireHmac(c)
    \/ RequireCronSecret(c)
    \/ SimulateDayCron(c)

SpecAuth == InitAuth /\ [][NextAuth]_vars

\* --------------------------------------------- specification: leaderboard

\* the sizes of the coach_stats table: empty, small, around the cut, large
BoardSizes == {0, 1, 3, TOP_N - 1, TOP_N, TOP_N + 1, MaxCoaches}

BoardShapes == {"ladder", "mixed", "fresh"}

\* coach_stats as completions leave it: on the ladder coach i completed one
\* career in i days; mixed, coach i completed i % 4 careers, the first in
\* 1..3 days; fresh, no coach completed any
BoardStats(n, shape) ==
  [u \in BoardCoaches |->
     IF u > n THEN NoStats
     ELSE IF shape = "ladder"
     THEN [present |-> TRUE, completions_count |-> 1, total_days_sum |-> u,
           best_days_to_premier |-> Some(u), avg_days_to_premier |-> Some(u)]
     ELSE IF shape = "fresh" \/ u % 4 = 0 THEN ZeroStats
     ELSE LET count == u % 4
              first == 1 + ((u * 5) % 3)
              sum == first + (count - 1) * (first + (u % 2))
          IN [present |-> TRUE, completions_count |-> count, total_days_sum |-> sum,
              best_days_to_premier |-> Some(first),
              avg_days_to_premier |-> Some(RoundDiv(sum, count))]]

InitBoard ==
  /\ \E n \in BoardSizes, shape \in BoardShapes :
       db = [BaseDb(<<"league_two", 72>>, <<"league_two", 72>>,
                    CHOOSE st \in InitSweepStates : st.run_count = 0)
               EXCEPT !.coach_stats = BoardStats(n, shape)]
  /\ db0 = db
  /\ locks = {}
  /\ advisory = NoTx
  /\ tick = 0
  /\ sw = [w \in Sweepers |-> SweepIdle]
  /\ cl = [c \in Callers |-> CallerIdle]
  /\ SimUnused
  /\ env = Deployed
  /\ MemoryUnused

NextBoard ==
  \E c \in {"c1"} :
    \/ BoardQuery(c)
    \/ BoardInsert(c)

SpecBoard == InitBoard /\ [][NextBoard]_vars

\* --------------------------------------------------- specification: sweep

InitSweep ==
  /\ \E prof1 \in Profiles, prof2 \in Profiles, st \in InitSweepStates :
       db = BaseDb(prof1, prof2, st)
  /\ db0 = db
  /\ locks = {}
  /\ advisory = NoTx
  /\ tick = 0
  /\ sw = [w \in Sweepers |-> SweepIdle]
  /\ cl = [c \in Callers |-> CallerIdle]
  /\ SimUnused
  /\ env = Deployed
  /\ MemoryUnused

NextSweep ==
  \/ \E w \in Sweepers :
       \/ SweepBegin(w)
       \/ SweepAcquire(w)
       \/ SweepSelect(w)
       \/ SweepDecide(w)
       \/ SweepLoad(w)
       \/ SweepCompleteLock(w)
       \/ SweepCompleteCommit(w)
       \/ SweepCompletionsDone(w)
       \/ SweepPromote(w)
       \/ SweepFinish(w)
  \/ Tick

SpecSweep == InitSweep /\ [][NextSweep]_vars

\* ------------------------------------------- specification: one sweep

\* players just below, at and above the threshold of each league
SoloProfiles ==
  {<<"league_two", 69>>, <<"league_two", 70>>, <<"league_two", 90>>,
   <<"league_one", 77>>, <<"league_one", 78>>,
   <<"championship", 85>>, <<"championship", 86>>}

InitSolo ==
  /\ \E prof1 \in SoloProfiles, prof2 \in SoloProfiles, st \in InitSweepStates :
       db = BaseDb(prof1, prof2, st)
  /\ db0 = db
  /\ locks = {}
  /\ advisory = NoTx
  /\ tick = 0
  /\ sw = [w \in Sweepers |-> SweepIdle]
  /\ cl = [c \in Callers |-> CallerIdle]
  /\ SimUnused
  /\ env = Deployed
  /\ MemoryUnused

\* one invocation of runTransferSweep and the clock
NextSolo ==
  \/ \E w \in {"w1"} :
       \/ SweepBegin(w)
       \/ SweepAcquire(w)
       \/ SweepSelect(w)
       \/ SweepDecide(w)
       \/ SweepLoad(w)
       \/ SweepCompleteLock(w)
       \/ SweepCompleteCommit(w)
       \/ SweepCompletionsDone(w)
       \/ SweepPromote(w)
       \/ SweepFinish(w)
  \/ Tick

SpecSolo == InitSolo /\ [][NextSolo]_vars

\* ------------------------------------------ specification: completions

\* p1 (coach u1, in squad s1) is ready to complete; p2 (coach u2, no squad) is
\* ready to complete or to be promoted
InitCareer ==
  /\ \E prof2 \in {<<"league_two", 72>>, <<"championship", 88>>} :
       db = BaseDb(<<"championship", 88>>, prof2, CHOOSE st \in InitSweepStates : st.run_count = 0)
  /\ db0 = db
  /\ locks = {}
  /\ advisory = NoTx
  /\ tick = 0
  /\ sw = [w \in Sweepers |-> SweepIdle]
  /\ cl = [c \in Callers |-> CallerIdle]
  /\ SimUnused
  /\ env = Deployed
  /\ MemoryUnused

NextCareer ==
  \/ \E c \in Callers :
       \/ CompleteCall(c)
       \/ CompleteLock(c)
       \/ CompleteCommit(c)
  \/ \E w \in {"w1"} :
       \/ SweepBegin(w)
       \/ SweepAcquire(w)
       \/ SweepSelect(w)
       \/ SweepDecide(w)
       \/ SweepLoad(w)
       \/ SweepCompleteLock(w)
       \/ SweepCompleteCommit(w)
       \/ SweepCompletionsDone(w)
       \/ SweepPromote(w)
       \/ SweepFinish(w)

SpecCareer == InitCareer /\ [][NextCareer]_vars

\* ------------------------------------- specification: frozen players

\* p1 (championship, 88) is ready to complete, p2 (league_two, 72) is ready
\* to be promoted
InitFrozen ==
  /\ db = BaseDb(<<"championship", 88>>, <<"league_two", 72>>,
                 CHOOSE st \in InitSweepStates : st.run_count = 0)
  /\ db0 = db
  /\ locks = {}
  /\ advisory = NoTx
  /\ tick = 0
  /\ sw = [w \in Sweepers |-> SweepIdle]
  /\ cl = [c \in Callers |-> CallerIdle]
  /\ SimUnused
  /\ env = Deployed
  /\ MemoryUnused

\* completions, one sweep, progress updates and re-registrations
NextFrozen ==
  \/ \E c \in Callers :
       \/ CompleteCall(c)
       \/ CompleteLock(c)
       \/ CompleteCommit(c)
       \/ UpdateProgress(c)
       \/ CreatePlayerInsert(c)
       \/ CreatePlayerStats(c)
  \/ \E w \in {"w1"} :
       \/ SweepBegin(w)
       \/ SweepAcquire(w)
       \/ SweepSelect(w)
       \/ SweepDecide(w)
       \/ SweepLoad(w)
       \/ SweepCompleteLock(w)
       \/ SweepCompleteCommit(w)
       \/ SweepCompletionsDone(w)
       \/ SweepPromote(w)
       \/ SweepFinish(w)

SpecFrozen == InitFrozen /\ [][NextFrozen]_vars

\* ------------------------------------------- specification: memberships

\* squad s1 exists (any privacy) with u1 as its leader; u2 is in no squad
InitSquad ==
  /\ \E pv \in Privacies :
       db = [BaseDb(<<"league_two", 72>>, <<"league_two", 72>>,
                    CHOOSE st \in InitSweepStates : st.run_count = 0)
               EXCEPT !.squads["s1"].privacy = pv]
  /\ db0 = db
  /\ locks = {}
  /\ advisory = NoTx
  /\ tick = 0
  /\ sw = [w \in Sweepers |-> SweepIdle]
  /\ cl = [c \in Callers |-> CallerIdle]
  /\ SimUnused
  /\ env = Deployed
  /\ MemoryUnused

NextSquad ==
  \E c \in Callers :
    \/ CreateCall(c) \/ CreateCheck(c) \/ CreateInsert(c)
    \/ JoinCall(c) \/ JoinCheck(c) \/ JoinWrite(c)
    \/ RequestCall(c) \/ RequestCheck(c) \/ RequestWrite(c)
    \/ ResolveCall(c) \/ ResolveLock(c) \/ ResolveAssert(c) \/ ResolveMember(c)
    \/ ResolveWrite(c)
    \/ LeaveCall(c) \/ LeaveLock(c) \/ LeaveWrite(c)
    \/ RoleCall(c) \/ RoleCheck(c) \/ RoleWrite(c)

SpecSquad == InitSquad /\ [][NextSquad]_vars

\* ---------------------------------------- specification: squad points

\* s1 after some completions and upgrades: facility levels, points earned
\* and points left
InitPointStates ==
  {[levels |-> NewFacilities, total |-> 0, unspent |-> 0],
   [levels |-> NewFacilities, total |-> 11, unspent |-> 11],
   [levels |-> NewFacilities, total |-> 20, unspent |-> 20],
   [levels |-> [NewFacilities EXCEPT !.training_equipment = 1, !.analysis_room = 1,
                                     !.medical_center = 1],
    total |-> 26, unspent |-> 8],
   [levels |-> [NewFacilities EXCEPT !.training_equipment = 1, !.analysis_room = 1,
                                     !.medical_center = 1],
    total |-> 31, unspent |-> 13]}

\* both players are ready to complete; u1 leads s1; u2 is its co-leader or
\* is in no squad
InitPoints ==
  /\ \E ps \in InitPointStates, m2 \in {"none", "active"} :
       db = [BaseDb(<<"championship", 88>>, <<"championship", 88>>,
                    CHOOSE st \in InitSweepStates : st.run_count = 0)
               EXCEPT !.squads["s1"].total_points = ps.total,
                      !.squads["s1"].unspent_points = ps.unspent,
                      !.facilities["s1"] = ps.levels,
                      !.members[<<"s1", "u2">>] =
                         IF m2 = "none" THEN NoMember
                         ELSE [status |-> "active", role |-> "co_leader",
                               points_contributed |-> 0]]
  /\ db0 = db
  /\ locks = {}
  /\ advisory = NoTx
  /\ tick = 0
  /\ sw = [w \in Sweepers |-> SweepIdle]
  /\ cl = [c \in Callers |-> CallerIdle]
  /\ SimUnused
  /\ env = Deployed
  /\ MemoryUnused

NextPoints ==
  \E c \in Callers :
    \/ CompleteCall(c) \/ CompleteLock(c) \/ CompleteCommit(c)
    \/ UpgradeCall(c) \/ UpgradeAssert(c) \/ UpgradeLock(c) \/ UpgradeWrite(c)
    \/ CreateCall(c) \/ CreateCheck(c) \/ CreateInsert(c)

SpecPoints == InitPoints /\ [][NextPoints]_vars

\* ------------------------------- specification: upgrades and memberships

\* upgrades race with members leaving and with the leader changing roles
NextUpgrade ==
  \E c \in Callers :
    \/ UpgradeCall(c) \/ UpgradeAssert(c) \/ UpgradeLock(c) \/ UpgradeWrite(c)
    \/ LeaveCall(c) \/ LeaveLock(c) \/ LeaveWrite(c)
    \/ RoleCall(c) \/ RoleCheck(c) \/ RoleWrite(c)

SpecUpgrade == InitPoints /\ [][NextUpgrade]_vars

\* ---------------------------------------- specification: simulate-day

\* the results of a season played to the end with the first goal draw
SeasonResults ==
  SelectSeq([n \in 1..(TOTAL_MATCHDAYS * MATCHES_PER_MD) |->
               LET md == ((n - 1) \div MATCHES_PER_MD) + 1
                   k == ((n - 1) % MATCHES_PER_MD) + 1
                   pr == getRoundRobinPairings(ClubIds, md)[k]
               IN [fixtureId |-> n, matchday |-> md, homeClubId |-> pr[1],
                   awayClubId |-> pr[2], home_goals |-> HomeGoals(0, k),
                   away_goals |-> AwayGoals(0, k)]],
            LAMBDA r : TRUE)

SeasonFixtures ==
  [n \in 1..Len(SeasonResults) |->
     PlayFixture(NewFixture(1, SeasonResults[n].matchday,
                            <<SeasonResults[n].homeClubId, SeasonResults[n].awayClubId>>),
                 SeasonResults[n])]

\* the sum of G(n) over n in N
SumOver(N, G(_)) == Cardinality(UNION {{<<n, j>> : j \in 1..G(n)} : n \in N})

\* the TeamSeason row of club cid once the standings of all 46 matchdays
\* have been written
FinalStanding(cid) ==
  LET N == {n \in 1..Len(SeasonResults) :
              cid \in {SeasonResults[n].homeClubId, SeasonResults[n].awayClubId}}
      gf(n) == IF SeasonResults[n].homeClubId = cid THEN SeasonResults[n].home_goals
               ELSE SeasonResults[n].away_goals
      ga(n) == IF SeasonResults[n].homeClubId = cid THEN SeasonResults[n].away_goals
               ELSE SeasonResults[n].home_goals
      won == Cardinality({n \in N : gf(n) > ga(n)})
      drawn == Cardinality({n \in N : gf(n) = ga(n)})
  IN [season_id |-> 1, club_id |-> cid, played |-> Cardinality(N), won |-> won,
      drawn |-> drawn, lost |-> Cardinality(N) - won - drawn,
      goals_for |-> SumOver(N, gf), goals_against |-> SumOver(N, ga),
      goal_difference |-> SumOver(N, gf) - SumOver(N, ga), points |-> 3 * won + drawn]

\* the rows in the order in which the first matchday created them
SeasonStandings ==
  LET cids == ResultClubs(SubSeq(SeasonResults, 1, MATCHES_PER_MD))
  IN [k \in 1..Len(cids) |-> FinalStanding(cids[k])]

\* one tier: no season yet, a fresh active season with its progress row, or
\* a season whose 46 matchdays have all been played
InitSim ==
  /\ \/ /\ seasons = <<>> /\ progs = <<>>
        /\ fixtures = NoFixtures /\ teamSeasons = <<>>
     \/ /\ seasons = <<NewSeason>> /\ progs = <<NewProgress(1)>>
        /\ fixtures = NoFixtures /\ teamSeasons = <<>>
     \/ /\ seasons = <<[NewSeason EXCEPT !.current_matchday = TOTAL_MATCHDAYS + 1,
                                         !.current_gameweek = TOTAL_MATCHDAYS + 1,
                                         !.fixtures_generated = TRUE]>>
        /\ progs = <<[NewProgress(1) EXCEPT !.current_matchday = TOTAL_MATCHDAYS + 1]>>
        /\ fixtures = SeasonFixtures \o NoFixtures
        /\ teamSeasons = SeasonStandings
  /\ sim = [v \in Invokers |-> SimIdle]
  /\ fails = 0
  /\ env = Deployed
  /\ MemoryUnused
  /\ db = BaseDb(<<"league_two", 72>>, <<"league_two", 72>>,
                 CHOOSE st \in InitSweepStates : st.run_count = 0)
  /\ db0 = db
  /\ locks = {}
  /\ advisory = NoTx
  /\ tick = 0
  /\ sw = [w \in Sweepers |-> SweepIdle]
  /\ cl = [c \in Callers |-> CallerIdle]

NextSim ==
  \E v \in Invokers :
    \/ SimStart(v) \/ SimFindSeason(v) \/ SimCreateSeason(v)
    \/ SimFindProgress(v) \/ SimCreateProgress(v) \/ SimSeasonComplete(v)
    \/ SimFetchFixtures(v) \/ SimGenFixture(v) \/ SimRefetch(v) \/ SimMarkGenerated(v)
    \/ SimClassify(v)
    \/ SimShortCircuitProgress(v) \/ SimShortCircuitSeason(v)
    \/ SimWriteFixture(v) \/ SimVerify(v)
    \/ SimFetchTeamSeasons(v) \/ SimCreateTeamSeasons(v) \/ SimUpdateStandings(v)
    \/ SimAdvanceProgress(v) \/ SimAdvanceSeason(v)

SpecSim == InitSim /\ [][NextSim]_vars

\* --------------------------------- specification: a pass at each matchday

\* the TeamSeason row of club cid once the standings of matchdays 1..last
\* have been written
StandingAfter(cid, last) ==
  LET N == {n \in 1..(last * MATCHES_PER_MD) :
              cid \in {SeasonResults[n].homeClubId, SeasonResults[n].awayClubId}}
      gf(n) == IF SeasonResults[n].homeClubId = cid THEN SeasonResults[n].home_goals
               ELSE SeasonResults[n].away_goals
      ga(n) == IF SeasonResults[n].homeClubId = cid THEN SeasonResults[n].away_goals
               ELSE SeasonResults[n].home_goals
      won == Cardinality({n \in N : gf(n) > ga(n)})
      drawn == Cardinality({n \in N : gf(n) = ga(n)})
  IN [season_id |-> 1, club_id |-> cid, played |-> Cardinality(N), won |-> won,
      drawn |-> drawn, lost |-> Cardinality(N) - won - drawn,
      goals_for |-> SumOver(N, gf), goals_against |-> SumOver(N, ga),
      goal_difference |-> SumOver(N, gf) - SumOver(N, ga), points |-> 3 * won + drawn]

\* the tier when matchday m is the next to play: the fixtures of the
\* matchdays before m are played and their standings written
InitSeason ==
  /\ \E m \in 1..TOTAL_MATCHDAYS :
       /\ seasons = <<[NewSeason EXCEPT !.current_matchday = m, !.current_gameweek = m,
                                        !.fixtures_generated = (m > 1)]>>
       /\ progs = <<[NewProgress(1) EXCEPT !.current_matchday = m]>>
       /\ fixtures = SubSeq(SeasonFixtures, 1, (m - 1) * MATCHES_PER_MD) \o NoFixtures
       /\ teamSeasons =
            IF m = 1 THEN <<>>
            ELSE LET cids == ResultClubs(SubSeq(SeasonResults, 1, MATCHES_PER_MD))
                 IN SelectSeq([k \in 1..Len(cids) |-> StandingAfter(cids[k], m - 1)],
                              LAMBDA t : TRUE)
  /\ sim = [v \in Invokers |-> SimIdle]
  /\ fails = 0
  /\ env = Deployed
  /\ MemoryUnused
  /\ db = BaseDb(<<"league_two", 72>>, <<"league_two", 72>>,
                 CHOOSE st \in InitSweepStates : st.run_count = 0)
  /\ db0 = db
  /\ locks = {}
  /\ advisory = NoTx
  /\ tick = 0
  /\ sw = [w \in Sweepers |-> SweepIdle]
  /\ cl = [c \in Callers |-> CallerIdle]

\* one invocation for the tier
NextSeason ==
  \E v \in {"i1"} :
    \/ SimStart(v) \/ SimFindSeason(v) \/ SimFindProgress(v)
    \/ SimFetchFixtures(v) \/ SimGenFixture(v) \/ SimRefetch(v) \/ SimMarkGenerated(v)
    \/ SimClassify(v)
    \/ SimWriteFixture(v) \/ SimVerify(v)
    \/ SimFetchTeamSeasons(v) \/ SimCreateTeamSeasons(v) \/ SimUpdateStandings(v)
    \/ SimAdvanceProgress(v) \/ SimAdvanceSeason(v)

SpecSeason == InitSeason /\ [][NextSeason]_vars

\* ------------------- specification: simulate-day invoked a second time

\* one step of an invocation that has started
SimStep(v) ==
  \/ SimFindSeason(v) \/ SimCreateSeason(v)
  \/ SimFindProgress(v) \/ SimCreateProgress(v) \/ SimSeasonComplete(v)
  \/ SimFetchFixtures(v) \/ SimGenFixture(v) \/ SimRefetch(v) \/ SimMarkGenerated(v)
  \/ SimClassify(v)
  \/ SimShortCircuitProgress(v) \/ SimShortCircuitSeason(v)
  \/ SimWriteFixture(v) \/ SimVerify(v)
  \/ SimFetchTeamSeasons(v) \/ SimCreateTeamSeasons(v) \/ SimUpdateStandings(v)
  \/ SimAdvanceProgress(v) \/ SimAdvanceSeason(v)

\* the cron fires again only after the previous invocation has returned
NextRetry ==
  \/ SimStart("i1")
  \/ SimStep("i1")
  \/ sim["i1"].pc = "done" /\ SimStart("i2")
  \/ SimStep("i2")

SpecRetry == InitSim /\ [][NextRetry]_vars

\* ------------------------------- specification: a sweep that dies midway

\* one step of runTransferSweep
SweepStep(w) ==
  \/ SweepBegin(w)
  \/ SweepAcquire(w)
  \/ SweepSelect(w)
  \/ SweepDecide(w)
  \/ SweepLoad(w)
  \/ SweepCompleteLock(w)
  \/ SweepCompleteCommit(w)
  \/ SweepCompletionsDone(w)
  \/ SweepPromote(w)
  \/ SweepFinish(w)

NextRecover ==
  \/ \E w \in Sweepers :
       \/ SweepStep(w)
       \/ SweepCrash(w)
  \/ Tick

\* an invocation that has started and has not died goes on to its end
SpecRecover ==
  InitFrozen /\ [][NextRecover]_vars /\ \A w \in Sweepers : WF_vars(SweepStep(w))

\* ------------------------------------------------------------ claims

\* two finished, non-forced invocations that read the same due day, on which
\* no sweep had run before
DuePair(a, b) ==
  /\ a # b
  /\ sw[a].pc = "done" /\ sw[b].pc = "done"
  /\ ~sw[a].force /\ ~sw[b].force
  /\ sw[a].today = sw[b].today
  /\ IsDue(sw[a].today)
  /\ ~AlreadyRan(db0.sweep_state, sw[a].today)

\* C1: of two non-forced sweep invocations on a due day not yet swept, exactly
\* one executes the sweep (run_count grows by exactly 1, last_sweep_utc_day
\* becomes today) and the other returns ran = false without loading or
\* changing any player.
C1_ExactlyOneSweep ==
  \A a \in Sweepers, b \in Sweepers :
    DuePair(a, b) =>
      /\ sw[a].ran # sw[b].ran
      /\ db.sweep_state.run_count = db0.sweep_state.run_count + 1
      /\ db.sweep_state.last_sweep_utc_day = Some(sw[a].today)
      /\ \A w \in {a, b} : ~sw[w].ran => (~sw[w].loaded /\ sw[w].wrote = {})

\* the two invocations overlapped, one ran and changed a player, the other did not run
C1_Witness ==
  \E a \in Sweepers, b \in Sweepers :
    /\ DuePair(a, b)
    /\ sw[b].overlapped
    /\ sw[a].ran /\ sw[a].wrote # {}
    /\ ~sw[b].ran

RowsFor(p) ==
  Cardinality({i \in 1..Len(db.career_completions) : db.career_completions[i].player_id = p})

EventsOf(d, u) ==
  Cardinality({i \in 1..Len(d.point_events) : d.point_events[i].user_id = u})

\* two manual completion calls for the same player, both begun while the
\* player was active, at least one begun while the other was in progress, both
\* returned a result, and no sweep completed the player meanwhile
ConcurrentCompletions(a, b) ==
  /\ a # b
  /\ cl[a].pc = "done" /\ cl[b].pc = "done"
  /\ cl[a].op = "complete" /\ cl[b].op = "complete"
  /\ cl[a].player = cl[b].player
  /\ cl[a].start = "active" /\ cl[b].start = "active"
  /\ cl[a].overlapped \/ cl[b].overlapped
  /\ cl[a].result # "error" /\ cl[b].result # "error"
  /\ \A w \in Sweepers : cl[a].player \notin sw[w].wrote

\* C2: two concurrent completePlayerCareer calls for the same active player
\* give exactly one already_completed = false and one already_completed =
\* true, exactly one CareerCompletion row, exactly one CoachStats increment and
\* at most one squad point award.
C2_ConcurrentCompletion ==
  \A a \in Callers, b \in Callers :
    ConcurrentCompletions(a, b) =>
      LET p == cl[a].player
          u == db.players[p].user_id IN
      /\ {cl[a].result, cl[b].result} = {"completed", "already"}
      /\ RowsFor(p) = 1
      /\ db.coach_stats[u].completions_count = db0.coach_stats[u].completions_count + 1
      /\ EventsOf(db, u) <= EventsOf(db0, u) + 1
      /\ ~(cl[a].awarded /\ cl[b].awarded)

\* both calls returned, the winner's coach was in a squad and got the point
C2_Witness ==
  \E a \in Callers, b \in Callers :
    /\ ConcurrentCompletions(a, b)
    /\ cl[a].result = "completed" /\ cl[a].awarded
    /\ cl[b].result = "already"

\* C3: every completed player has exactly one CareerCompletion row and no
\* player ever has more than one, whatever manual completions, sweeps and
\* failed (rolled back) completions occurred.
C3_OneCompletionRow ==
  \A p \in Players :
    /\ RowsFor(p) <= 1
    /\ db.players[p].career_status = "completed" => RowsFor(p) = 1

\* a completion of a player failed and was rolled back, a later one succeeded,
\* and a sweep completed or promoted a player as well
C3_Witness ==
  \E a \in Callers, b \in Callers :
    /\ cl[a].result = "error" /\ cl[b].result = "completed"
    /\ cl[a].player = cl[b].player
    /\ sw["w1"].wrote # {}
    /\ RowsFor(cl[a].player) = 1

\* C4: a completePlayerCareer call on an already-completed player returns
\* already_completed = true and leaves the CareerCompletion rows, CoachStats,
\* the squads' points, the members' contributions and the SquadPointEvent log
\* unchanged.
C4_CompletionIdempotent ==
  [][\A c \in Callers :
       (/\ cl[c].pc = "completing"
        /\ cl'[c].pc = "done"
        /\ db.players[cl[c].player].career_status = "completed")
       => /\ cl'[c].result = "already"
          /\ db'.career_completions = db.career_completions
          /\ db'.coach_stats = db.coach_stats
          /\ db'.squads = db.squads
          /\ db'.members = db.members
          /\ db'.point_events = db.point_events]_vars

\* a call made after the player was completed (with a squad point awarded)
\* has returned already_completed
C4_Witness ==
  \E c \in Callers :
    /\ cl[c].pc = "done" /\ cl[c].op = "complete"
    /\ cl[c].start = "completed" /\ cl[c].result = "already"
    /\ RowsFor(cl[c].player) = 1
    /\ EventsOf(db, db.players[cl[c].player].user_id) = 1

\* C5: under any interleaving of createSquad, joinOpenSquad, requestJoinSquad,
\* resolveSquadJoinRequest and leaveSquad, every user has at most one squad
\* membership with status 'active' across all squads.
C5_OneActiveMembership ==
  \A u \in Users : Cardinality(ActiveMembershipsOf(db, u)) <= 1

\* C6: under any interleaving of career completions and facility upgrades,
\* every squad satisfies 0 <= unspent_points <= total_points.
C6_PointsBounded ==
  \A s \in Squads :
    db.squads[s].exists =>
      /\ 0 <= db.squads[s].unspent_points
      /\ db.squads[s].unspent_points <= db.squads[s].total_points

\* an upgrade and an award have committed, and one upgrade holds the squad
\* row while another upgrade of the same squad waits for it
C6_Witness ==
  /\ db.spend # <<>>
  /\ db.point_events # <<>>
  /\ \E c \in Callers, o \in Callers :
       /\ c # o
       /\ cl[c].pc = "up_write" /\ cl[o].pc = "up_lock"
       /\ cl[c].squad = cl[o].squad

LevelFormula(s) ==
  1 + ((db.facilities[s]["training_equipment"] + db.facilities[s]["spa"]
        + db.facilities[s]["analysis_room"] + db.facilities[s]["medical_center"]) \div 4)

LevelMatchesFacilities ==
  \A s \in Squads :
    db.squads[s].exists =>
      /\ DOMAIN db.facilities[s] = FACILITY_TYPES
      /\ db.squads[s].level = LevelFormula(s)

NewSquadStartsAtLevelOne ==
  \A s \in Squads :
    (~db.squads[s].exists /\ db'.squads[s].exists) =>
      /\ DOMAIN db'.facilities[s] = FACILITY_TYPES
      /\ \A f \in FACILITY_TYPES : db'.facilities[s][f] = 0
      /\ db'.squads[s].level = 1

\* C7: after every committed operation every squad's stored level is
\* 1 + floor(sum of its four facility levels / 4), and a newly created squad
\* has its four facility rows at level 0 and level 1.
C7_LevelDerived == []LevelMatchesFacilities /\ [][NewSquadStartsAtLevelOne]_vars

\* an upgrade has taken s1 to level 2 and s2 has been created
C7_Witness ==
  /\ db.squads["s1"].level = 2
  /\ db.spend # <<>>
  /\ db.squads["s2"].exists /\ ~db0.squads["s2"].exists

\* the fixtures of (season, matchday) stored as played
PlayedFixtures(seasonId, matchday) ==
  {id \in 1..Len(fixtures) :
     /\ fixtures[id].season_id = seasonId /\ fixtures[id].matchday = matchday
     /\ fixtures[id].status = "PLAYED" /\ ~IsNull(fixtures[id].played_at)}

\* each of the matchday's twelve pairings has a fixture stored as played
TwelvePlayed(seasonId, matchday) ==
  Cardinality({<<fixtures[id].home_club_id, fixtures[id].away_club_id>> :
                 id \in PlayedFixtures(seasonId, matchday)}) = MATCHES_PER_MD

Steps(v) == sim'[v] # sim[v]

\* what has to hold when invocation v moves a counter from m to m + 1
MayAdvance(v) ==
  /\ sim[v].pc \in {"sc_progress", "sc_season", "adv_progress", "adv_season"}
  /\ TwelvePlayed(sim[v].season, sim[v].matchday)
  /\ sim[v].simulated => (sim[v].fixFails = 0 /\ sim[v].standFails = 0)

CountersMoveOnlyWhenPlayed ==
  /\ \A k \in 1..Len(progs) :
       progs'[k].current_matchday = progs[k].current_matchday + 1 =>
         \E v \in Invokers :
           /\ Steps(v) /\ MayAdvance(v)
           /\ sim[v].prog = k /\ sim[v].matchday = progs[k].current_matchday
  /\ \A k \in 1..Len(seasons) :
       seasons'[k].current_matchday = seasons[k].current_matchday + 1 =>
         \E v \in Invokers :
           /\ Steps(v) /\ MayAdvance(v)
           /\ sim[v].season = k /\ sim[v].matchday = seasons[k].current_matchday

FailedPassLeavesCounters ==
  \A v \in Invokers :
    (sim[v].fixFails > 0 \/ sim[v].standFails > 0
       \/ sim[v].outcome \in {"aborted", "verify", "gate"})
      => (~sim[v].wroteProgress /\ ~sim[v].wroteSeason)

\* C8: an invocation moves SeasonProgress.current_matchday and
\* Season.current_matchday from m to m+1 only if the twelve fixtures of
\* (season, m) are stored as played and, when it simulated them, no fixture
\* or TeamSeason write failed; an invocation with a failed fixture or
\* standings write, a failed verification or a closed hard gate writes
\* neither counter.
C8_AdvanceGated == []FailedPassLeavesCounters /\ [][CountersMoveOnlyWhenPlayed]_vars

\* one invocation simulated the matchday and advanced both counters while
\* the other was aborted on a failed write
C8_Witness ==
  \E v \in Invokers, o \in Invokers :
    /\ sim[v].outcome = "ok" /\ sim[v].simulated
    /\ sim[v].wroteProgress /\ sim[v].wroteSeason
    /\ progs[1].current_matchday = sim[v].matchday + 1
    /\ seasons[1].current_matchday = sim[v].matchday + 1
    /\ sim[o].outcome = "aborted"

\* the invocation read twelve fixtures stored as played and none unplayed
FoundAllPlayed(found) ==
  /\ Cardinality({k \in 1..Len(found) : found[k].row.status = "PLAYED"}) = MATCHES_PER_MD
  /\ \A k \in 1..Len(found) : found[k].row.status = "PLAYED"

ShortCircuitStep ==
  \A v \in Invokers :
    /\ (sim[v].pc = "classify" /\ Steps(v) /\ FoundAllPlayed(sim[v].found))
         => sim'[v].pc = "sc_progress"
    /\ (sim[v].pc \in {"sc_progress", "sc_season"} /\ Steps(v))
         => /\ fixtures' = fixtures
            /\ teamSeasons' = teamSeasons
            /\ (sim[v].pc = "sc_progress" /\ sim'[v].wroteProgress)
                 => progs'[sim[v].prog].current_matchday = sim[v].matchday + 1
            /\ (sim[v].pc = "sc_season" /\ sim'[v].wroteSeason)
                 => seasons'[sim[v].season].current_matchday = sim[v].matchday + 1

\* C9: an invocation that finds the twelve fixtures of the current matchday
\* m played and none upcoming takes the short-circuit, which sets
\* SeasonProgress.current_matchday and Season.current_matchday to m+1 and
\* modifies no fixture and no TeamSeason row.
C9_ShortCircuitFrame == [][ShortCircuitStep]_vars

\* an invocation has finished through the short-circuit and the counters
\* are at matchday 2
C9_Witness ==
  \E v \in Invokers :
    /\ sim[v].outcome = "alreadyPlayed" /\ ~sim[v].simulated
    /\ sim[v].wroteProgress /\ sim[v].wroteSeason
    /\ progs[1].current_matchday = 2 /\ seasons[1].current_matchday = 2

\* no simulate-day invocation is in progress
SimQuiescent == \A v \in Invokers : sim[v].pc \in {"idle", "done"}

FixturesOf(seasonId, matchday) ==
  {id \in 1..Len(fixtures) :
     fixtures[id].season_id = seasonId /\ fixtures[id].matchday = matchday}

\* C10: whenever no invocation is in progress, each (season, matchday) has
\* no fixtures or exactly twelve, and no club is in more than one of them.
C10_TwelveFixturesOrNone ==
  SimQuiescent =>
    \A s \in 1..Len(seasons), m \in {fixtures[id].matchday : id \in 1..Len(fixtures)} :
      LET F == FixturesOf(s, m) IN
        /\ F = {} \/ Cardinality(F) = MATCHES_PER_MD
        /\ \A a \in F, b \in F :
             a # b => {fixtures[a].home_club_id, fixtures[a].away_club_id}
                        \cap {fixtures[b].home_club_id, fixtures[b].away_club_id} = {}

\* ---------------------------------------------------------------------------
\* C11: after any sequence of simulateDayCore invocations, starting from
\* TeamSeason rows at zero, every TeamSeason row has
\* played = won + drawn + lost and points = 3 * won + drawn.
C11_StandingsConsistent ==
  \A i \in 1..Len(teamSeasons) :
    /\ teamSeasons[i].played
         = teamSeasons[i].won + teamSeasons[i].drawn + teamSeasons[i].lost
    /\ teamSeasons[i].points = 3 * teamSeasons[i].won + teamSeasons[i].drawn

\* a standings pass has written a win, a draw and a loss of a first matchday
C11_Witness ==
  /\ \E v \in Invokers : sim[v].pc = "adv_progress"
  /\ \E i \in 1..Len(teamSeasons) : teamSeasons[i].played = 1 /\ teamSeasons[i].won = 1
  /\ \E i \in 1..Len(teamSeasons) : teamSeasons[i].played = 1 /\ teamSeasons[i].drawn = 1
  /\ \E i \in 1..Len(teamSeasons) : teamSeasons[i].played = 1 /\ teamSeasons[i].lost = 1

\* ---------------------------------------------------------------------------
\* the invocations of runTransferSweep that are in Phases 2 to 5
InPhases2To5 ==
  {w \in Sweepers : sw[w].pc \in {"load", "complete", "completing", "promote"}}

\* C12: at any instant at most one invocation of runTransferSweep, forced
\* or not, is loading, completing or promoting players (Phases 2 to 5).
C12_OneSweepAtATime == Cardinality(InPhases2To5) <= 1

\* ---------------------------------------------------------------------------
\* the frozen columns of a player row
FrozenColumns(row) == <<row.overall_rating, row.current_league, row.career_status>>

\* a call of updatePlayerProgress on player p returns in this step
UpdateReturns(c, p) ==
  /\ cl'[c].calls = cl[c].calls + 1
  /\ cl'[c].op = "update"
  /\ cl'[c].player = p

\* no step changes the frozen columns of a completed player, and
\* updatePlayerProgress on a completed player changes nothing and returns null
FrozenStep ==
  \A p \in Players :
    db.players[p].career_status = "completed" =>
      /\ FrozenColumns(db'.players[p]) = FrozenColumns(db.players[p])
      /\ \A c \in Callers :
           (UpdateReturns(c, p) /\ cl'[c].result # "error") =>
             db' = db /\ cl'[c].result = "null"

\* C13: once a player's career_status is 'completed', its overall_rating,
\* current_league and career_status never change under createPlayer,
\* updatePlayerProgress, sweep promotion batches and completePlayerCareer;
\* updatePlayerProgress on a completed player is a no-op.
C13_CompletedFrozen == [][FrozenStep]_vars

\* a completed player has been re-registered, and an updatePlayerProgress
\* with new values for it has returned null
C13_Witness ==
  \E c \in Callers, o \in Callers :
    /\ cl[c].op = "update" /\ cl[c].pc = "done" /\ cl[c].result = "null"
    /\ cl[c].start = "completed"
    /\ cl[o].op = "register" /\ cl[o].pc = "done" /\ cl[o].start = "completed"
    /\ cl[o].player = cl[c].player

\* ---------------------------------------------------------------------------
\* caller c's approval is answered with the 'already in a squad' error in this step
AutoRejected(c) ==
  /\ cl[c].pc = "rs_member"
  /\ cl'[c].pc = "done"
  /\ cl'[c].result = "already_in_squad"

\* C14: if a leader approves a pending join request whose applicant has
\* meanwhile become an active member of another squad, the approval fails
\* with 'already in a squad', the applicant gains no membership in the
\* requested squad, and the request is persisted as rejected with
\* resolved_by recorded, so it is no longer pending.
C14_AutoRejectPersisted ==
  [][\A c \in Callers :
       (AutoRejected(c) /\ db.members[MemberKey(cl[c].squad, cl[c].target)].status # "active") =>
         /\ db'.members[MemberKey(cl[c].squad, cl[c].target)]
              = db.members[MemberKey(cl[c].squad, cl[c].target)]
         /\ db'.requests[cl[c].req].status = "rejected"
         /\ db'.requests[cl[c].req].resolved_by = cl[c].user]_vars

\* ---------------------------------------------------------------------------
\* the base costs as the documentation lists them
ListedBaseCost(f) ==
  CASE f = "training_equipment" -> 5
    [] f = "spa" -> 8
    [] f = "analysis_room" -> 6
    [] f = "medical_center" -> 7

\* caller c's upgradeSquadFacility commits in this step
UpgradeCommits(c) ==
  /\ cl[c].pc = "up_write"
  /\ cl'[c].pc = "done"
  /\ cl'[c].result = "ok"

\* what a successful upgrade of facility f of squad s at level L does
UpgradeEffect ==
  \A c \in Callers :
    UpgradeCommits(c) =>
      LET s == cl[c].squad
          f == cl[c].fac
          L == db.facilities[s][f]
          cost == ListedBaseCost(f) * (L + 1)
      IN /\ db'.facilities[s][f] = L + 1
         /\ \A g \in FACILITY_TYPES \ {f} : db'.facilities[s][g] = db.facilities[s][g]
         /\ db'.squads[s].unspent_points = db.squads[s].unspent_points - cost
         /\ db'.squads[s].total_points = db.squads[s].total_points
         /\ db'.spend = Append(db.spend,
                               [squad_id |-> s, user_id |-> cl[c].user,
                                points_spent |-> cost, facility_type |-> f,
                                from_level |-> L, to_level |-> L + 1])

\* the spend rows so far are n upgrades of training_equipment, and no point
\* has been awarded
OnlyTrainingUpgrades(n) ==
  /\ db0.squads["s1"].unspent_points = 20
  /\ db.point_events = <<>>
  /\ Len(db.spend) = n
  /\ \A i \in 1..n : db.spend[i].facility_type = "training_equipment"

\* from 20 unspent points, two training_equipment upgrades leave 15 and then 5
TwentyFifteenFive ==
  /\ OnlyTrainingUpgrades(1) => db.squads["s1"].unspent_points = 15
  /\ OnlyTrainingUpgrades(2) => db.squads["s1"].unspent_points = 5

\* C15: a successful upgradeSquadFacility on a facility at level L charges
\* base_cost[type] * (L + 1) (5, 8, 6, 7): the facility is at L + 1,
\* unspent_points is lower by the cost, total_points and the other facility
\* levels are unchanged, one SquadSpendTransaction (points_spent = cost,
\* from_level = L, to_level = L + 1) is appended; from 20 unspent points two
\* training_equipment upgrades leave 15 and then 5.
C15_UpgradeCharges == []TwentyFifteenFive /\ [][UpgradeEffect]_vars

\* two training_equipment upgrades have been paid from 20 points
C15_Witness ==
  /\ OnlyTrainingUpgrades(2)
  /\ db.facilities["s1"]["training_equipment"] = 2
  /\ db.spend[2].points_spent = 10

\* ---------------------------------------------------------------------------
\* the thresholds as the documentation lists them
ListedThreshold(league) ==
  CASE league = "league_two" -> 70
    [] league = "league_one" -> 78
    [] league = "championship" -> 86

\* the row a sweep leaves for a player that was active with row a
SweptRow(a) ==
  IF a.overall_rating < ListedThreshold(a.current_league) THEN a
  ELSE IF a.current_league = "league_two" THEN [a EXCEPT !.current_league = "league_one"]
  ELSE IF a.current_league = "league_one" THEN [a EXCEPT !.current_league = "championship"]
  ELSE [a EXCEPT !.career_status = "completed"]

\* the sweep of w1 has executed to the end without a failed query
SoloSweepDone ==
  /\ sw["w1"].pc = "done"
  /\ sw["w1"].ran
  /\ sw["w1"].errors = <<>>

\* C16: in an executing sweep with no concurrent writers, a player below the
\* threshold of its league (70, 78, 86) is unchanged, a league_two player at
\* or above 70 ends in league_one, a league_one player at or above 78 ends in
\* championship, a championship player at or above 86 ends completed, and
\* every player moves one step at most.
C16_SweepClassifies ==
  SoloSweepDone =>
    \A p \in Players :
      [db.players[p] EXCEPT !.career_completed_at = None] = SweptRow(db0.players[p])

\* a sweep has executed on a league_two player rated 90 and a championship
\* player rated 86
C16_Witness ==
  /\ SoloSweepDone
  /\ db0.players["p1"].current_league = "league_two"
  /\ db0.players["p1"].overall_rating = 90
  /\ db.players["p1"].current_league = "league_one"
  /\ db0.players["p2"].overall_rating = 86
  /\ db.players["p2"].career_status = "completed"

\* ---------------------------------------------------------------------------
\* sweeper w takes a step of an invocation it has already begun
SweepSteps(w) == sw'[w] # sw[w] /\ sw[w].pc # "idle"

\* C17: runTransferSweep(force = false) on a UTC day with utc_day mod 4 # 0
\* returns ran = false and changes nothing: sweep_state, every player,
\* every CareerCompletion, every CoachStats row and every squad are unchanged.
C17_NotDueChangesNothing ==
  [][\A w \in Sweepers :
       (SweepSteps(w) /\ ~sw[w].force /\ sw[w].today % 4 # 0) =>
         /\ db' = db
         /\ sw'[w].pc \in {"select", "decide", "done"}
         /\ ~sw'[w].ran]_vars

\* a non-forced invocation on day 3 has returned, while a forced one runs
C17_Witness ==
  \E w \in Sweepers, o \in Sweepers :
    /\ sw[w].pc = "done" /\ ~sw[w].force /\ sw[w].today % 4 = 3 /\ ~sw[w].ran
    /\ sw[o].pc = "promote" /\ sw[o].force

\* C18: an invocation of runTransferSweep that finds last_sweep_utc_day
\* equal to the current UTC day exits in Phase 1 without updating
\* sweep_state and without processing any player, whether or not force is
\* set; run_count increases at most once per UTC day.
C18_AlreadyRanExits ==
  [][\A w \in Sweepers :
       (SweepSteps(w) /\ sw[w].pc = "decide" /\ AlreadyRan(Val(sw[w].state), sw[w].today)) =>
         /\ db'.sweep_state = db.sweep_state
         /\ sw'[w].pc = "done"
         /\ ~sw'[w].ran]_vars

\* ---------------------------------------------------------------------------
\* the places (pairing, side) at which club c stands in the pairings
PlacesOf(pairings, c) ==
  {<<k, side>> \in (1..Len(pairings)) \X {1, 2} : pairings[k][side] = c}

\* C19: for 24 distinct clubs and every matchday 1..46, the fixture
\* generator returns exactly 12 pairings in which every club appears exactly
\* once and no club is paired with itself.
C19_PairingsCoverClubs ==
  \A v \in Invokers :
    sim[v].pc = "gen" =>
      /\ Len(sim[v].pairings) = 12
      /\ \A c \in Range(ClubIds) : Cardinality(PlacesOf(sim[v].pairings, c)) = 1
      /\ \A k \in 1..Len(sim[v].pairings) : sim[v].pairings[k][1] # sim[v].pairings[k][2]

\* the pairings of the last matchday of the second half have been generated
C19_Witness ==
  \E v \in Invokers :
    /\ sim[v].pc = "gen"
    /\ sim[v].matchday = 46
    /\ Len(sim[v].pairings) = 12
    /\ Cardinality(Range(ClubIds)) = 24

\* ---------------------------------------------------------------------------
\* the ways out of a tier on which the tier has finished
FinishedOk == {"ok", "alreadyPlayed", "newSeasonCreated", "seasonCompleted"}

\* C20: the simulate-day cron endpoint answers 200 only when every
\* processed tier finished ok, and 207 whenever a tier did not complete its
\* matchday: aborted on a write or verification failure, reported an
\* error, or stopped at the hard gate without advancing.
C20_CronStatus ==
  \A v \in Invokers :
    sim[v].pc = "done" =>
      cronStatus({CronTierEntry(sim[v].outcome)})
        = IF sim[v].outcome \in FinishedOk THEN 200 ELSE 207

\* ---------------------------------------------------------------------------
\* x comes before y when smaller values come first and missing values last
SmallerNullsLast(x, y) ==
  IF IsNull(x) THEN FALSE ELSE IF IsNull(y) THEN TRUE ELSE Val(x) < Val(y)

\* coach row a is ahead of coach row b: more completions, then the quicker
\* best run, then the quicker average
Ahead(a, b) ==
  \/ a.completions_count > b.completions_count
  \/ /\ a.completions_count = b.completions_count
     /\ SmallerNullsLast(a.best_days_to_premier, b.best_days_to_premier)
  \/ /\ a.completions_count = b.completions_count
     /\ a.best_days_to_premier = b.best_days_to_premier
     /\ SmallerNullsLast(a.avg_days_to_premier, b.avg_days_to_premier)

CoachesOf(d) == {u \in BoardCoaches : d.coach_stats[u].present}

\* r is a rank of coach u under the order: after every coach ahead of u and
\* within the coaches level with u
TrueRank(d, u, r) ==
  LET ahead == Cardinality({v \in CoachesOf(d) : Ahead(d.coach_stats[v], d.coach_stats[u])})
      level == Cardinality({v \in CoachesOf(d) :
                              /\ ~Ahead(d.coach_stats[v], d.coach_stats[u])
                              /\ ~Ahead(d.coach_stats[u], d.coach_stats[v])})
  IN r > ahead /\ r <= ahead + level

ShowsRow(d, e) ==
  /\ e.completions_count = d.coach_stats[e.user_id].completions_count
  /\ e.best_days_to_premier = d.coach_stats[e.user_id].best_days_to_premier
  /\ e.avg_days_to_premier = d.coach_stats[e.user_id].avg_days_to_premier

\* the answer out to coach u over the table of d
BoardAnswer(d, u, out) ==
  LET total == Cardinality(CoachesOf(d))
      n == Min2(100, total)
  IN
  /\ out.total_coaches = total
  /\ DOMAIN out.leaderboard = 1..n
  /\ {out.leaderboard[k].rank : k \in 1..n} = 1..n
  /\ \A k \in 1..n :
       /\ out.leaderboard[k].user_id \in CoachesOf(d)
       /\ TrueRank(d, out.leaderboard[k].user_id, out.leaderboard[k].rank)
       /\ ShowsRow(d, out.leaderboard[k])
  /\ out.my_entry.user_id = u
  /\ IF u \in CoachesOf(d)
     THEN /\ TrueRank(d, u, out.my_entry.rank)
          /\ ShowsRow(d, out.my_entry)
          /\ out.my_entry.rank <= 100 => \E k \in 1..n : out.leaderboard[k] = out.my_entry
          /\ ~out.insert
     ELSE /\ out.my_entry = [rank |-> total + 1, user_id |-> u, completions_count |-> 0,
                             best_days_to_premier |-> None, avg_days_to_premier |-> None]
          /\ out.insert

BoardStep ==
  \A c \in Callers :
    /\ (cl'[c].op = "leaderboard" /\ cl'[c].calls = cl[c].calls + 1)
         => BoardAnswer(db, cl'[c].user, cl'[c].result)
    /\ (cl[c].pc = "lb_insert" /\ cl'[c].pc = "done")
         => /\ ~db.coach_stats[cl[c].user].present
            /\ db'.coach_stats[cl[c].user] = ZeroStats
            /\ \A u \in BoardCoaches \ {cl[c].user} : db'.coach_stats[u] = db.coach_stats[u]

BoardReturned ==
  \A c \in Callers :
    (cl[c].op = "leaderboard" /\ cl[c].pc = "done") =>
      /\ db.coach_stats[cl[c].user].present
      /\ cl[c].result.insert => db.coach_stats[cl[c].user] = ZeroStats

\* C21: getGlobalLeaderboard returns as leaderboard exactly the coaches
\* ranked 1 to min(100, total) under completions descending, best days
\* ascending with nulls last, average days ascending with nulls last; it
\* always returns a my_entry for the caller: the caller's true rank when
\* the caller has a CoachStats row, also beyond the top 100, and rank
\* total + 1 with zeroed fields when the caller has none, and then a zeroed
\* CoachStats row has been persisted for the caller when it returns.
C21_Leaderboard == [][BoardStep]_vars /\ []BoardReturned

\* a caller ranked 137 of 150 has been answered with a board of 100
C21_Witness ==
  \E c \in Callers :
    /\ cl[c].op = "leaderboard"
    /\ cl[c].pc = "done"
    /\ cl[c].result.total_coaches = 150
    /\ cl[c].result.my_entry.rank = 137
    /\ Len(cl[c].result.leaderboard) = 100

\* ---------------------------------------------------------------------------
\* the secret each gate depends on
SecretOf(gate) ==
  IF gate = "requireJwt" THEN env.AUTH_JWT_SECRET
  ELSE IF gate = "requireHmac" THEN env.BRAIN_HMAC_SECRET
  ELSE env.CRON_SECRET

AuthGates == {"requireJwt", "requireHmac", "requireCronSecret", "simulateDayCron"}

\* C22: each auth gate rejects every request when its secret is
\* unconfigured: requireJwt without AUTH_JWT_SECRET, requireHmac without
\* BRAIN_HMAC_SECRET, requireCronSecret and the simulate-day cron handler
\* without CRON_SECRET never pass a request on to the protected handler,
\* whatever the request headers and the other environment settings.
C22_GatesFailClosed ==
  \A c \in Callers :
    (cl[c].op \in AuthGates /\ cl[c].pc = "done" /\ Falsy(SecretOf(cl[c].op)))
      => ~cl[c].result.next

\* ---------------------------------------------------------------------------
\* an upgrade commits in this step
UpgradeCommitted(c) ==
  /\ cl[c].pc = "up_write"
  /\ cl'[c].pc = "done"
  /\ cl'[c].result = "ok"

UpgraderInCharge ==
  \A c \in Callers :
    UpgradeCommitted(c) =>
      /\ db.members[<<cl[c].squad, cl[c].user>>].status = "active"
      /\ db.members[<<cl[c].squad, cl[c].user>>].role \in {"leader", "co_leader"}

\* C23: upgradeSquadFacility never commits an upgrade on behalf of a user
\* who is not an active leader or co_leader of the squad at the moment the
\* upgrade takes effect; a setMemberRole demotion or a leaveSquad of that
\* user that commits first causes the upgrade to be refused.
C23_UpgradeByLeadership == [][UpgraderInCharge]_vars

\* ---------------------------------------------------------------------------
PendingOf(s, u) ==
  {i \in 1..Len(db.requests) :
     /\ db.requests[i].squad_id = s
     /\ db.requests[i].user_id = u
     /\ db.requests[i].status = "pending"}

\* C24: after any sequence of requestJoinSquad calls there is at most one
\* pending join request per squad and user: a repeated request by the same
\* user on the same squad inserts no new row.
C24_OnePendingRequest ==
  \A s \in Squads, u \in Users : Cardinality(PendingOf(s, u)) <= 1

\* ---------------------------------------------------------------------------
\* the calls of resolveSquadJoinRequest that hold request i locked
ResolversOf(i) ==
  {c \in Callers : cl[c].op = "resolve" /\ cl[c].req = i
                   /\ cl[c].pc \in {"rs_assert", "rs_member", "rs_write"}}

RequestStep ==
  /\ Len(db'.requests) >= Len(db.requests)
  /\ \A i \in 1..Len(db.requests) :
       db'.requests[i] # db.requests[i] =>
         /\ db.requests[i].status = "pending"
         /\ db'.requests[i].status \in {"approved", "rejected"}
         /\ \E c \in ResolversOf(i) : cl[c].pc = "rs_write" /\ cl'[c].pc = "done"
  /\ \A c \in Callers :
       (cl[c].pc = "rs_lock" /\ cl'[c].pc # "rs_lock"
          /\ db.requests[cl[c].req].status # "pending")
         => cl'[c].pc = "done" /\ cl'[c].result = "error" /\ db' = db
  /\ \A c \in Callers :
       (cl[c].pc = "rs_assert" /\ cl'[c].pc # "rs_assert"
          /\ ~(/\ db.members[<<cl[c].squad, cl[c].user>>].status = "active"
               /\ db.members[<<cl[c].squad, cl[c].user>>].role \in {"leader", "co_leader"}))
         => cl'[c].pc = "done" /\ cl'[c].result = "forbidden" /\ db' = db

OneResolver ==
  \A i \in 1..Len(db.requests) :
    /\ Cardinality(ResolversOf(i)) <= 1
    /\ ResolversOf(i) # {} => db.requests[i].status = "pending"

\* C25: a join request's status changes only from pending to approved or
\* from pending to rejected and never changes after that: a resolve of a
\* request that is not pending fails without changing it, a resolver whom
\* the role check finds not to be an active leader or co_leader of the
\* request's squad changes nothing, and of two concurrent resolve calls on
\* the same pending request at most one takes effect.
C25_RequestResolvedOnce == [][RequestStep]_vars /\ []OneResolver

\* a resolve of an already resolved request has failed
C25_Witness ==
  \E c \in Callers :
    /\ cl[c].op = "resolve" /\ cl[c].pc = "done" /\ cl[c].result = "error"
    /\ \E i \in 1..Len(db.requests) : db.requests[i].status \in {"approved", "rejected"}
    /\ \E d \in Callers \ {c} : cl[d].op = "resolve" /\ cl[d].result \in {"approved", "rejected"}

\* ---------------------------------------------------------------------------
\* the other active members of squad s
OthersIn(s, u) == {o \in Users \ {u} : db.members[<<s, o>>].status = "active"}

\* the leader u of s has active members beside them, none in charge
LeaderlessWithout(s, u) ==
  /\ db.members[<<s, u>>].role = "leader"
  /\ OthersIn(s, u) # {}
  /\ \A o \in OthersIn(s, u) : db.members[<<s, o>>].role \notin {"leader", "co_leader"}

LeaveStep ==
  \A c \in Callers :
    (cl[c].pc = "lv_write" /\ cl'[c].pc = "done") =>
      /\ db.members[<<cl[c].squad, cl[c].user>>].status = "active"
      /\ IF LeaderlessWithout(cl[c].squad, cl[c].user)
         THEN cl'[c].result = "error" /\ db' = db
         ELSE /\ cl'[c].result = "ok"
              /\ db' = [db EXCEPT !.members[<<cl[c].squad, cl[c].user>>].status = "inactive"]

InCharge(u, s) ==
  /\ db.members[<<s, u>>].status = "active"
  /\ db.members[<<s, u>>].role \in {"leader", "co_leader"}

\* the squad cannot pay for the next level of the facility
CannotPay(s, f) ==
  db.squads[s].unspent_points < ListedBaseCost(f) * (db.facilities[s][f] + 1)

UpgradeRefused ==
  \A c \in Callers :
    /\ (cl[c].pc = "up_assert" /\ cl'[c].pc # "up_assert" /\ ~InCharge(cl[c].user, cl[c].squad))
         => cl'[c].pc = "done" /\ cl'[c].result = "forbidden"
    /\ (cl[c].pc = "up_write" /\ cl'[c].pc = "done" /\ CannotPay(cl[c].squad, cl[c].fac))
         => cl'[c].result = "error"
    /\ (cl[c].op = "upgrade" /\ cl[c].pc # "done" /\ cl'[c].pc = "done"
          /\ cl'[c].result # "ok")
         => /\ db'.facilities = db.facilities
            /\ db'.squads = db.squads
            /\ db'.spend = db.spend

\* C27: upgradeSquadFacility fails when the squad's unspent_points is less
\* than the upgrade cost, and fails when the caller is not an active leader
\* or co_leader; on either failure the facility level, the squad's
\* unspent_points, total_points and level, and the SquadSpendTransaction
\* log are unchanged.
C27_UpgradeFailsCleanly == [][UpgradeRefused]_vars

\* one upgrade was refused for lack of points and one for lack of rank
C27_Witness ==
  \E c \in Callers, d \in Callers :
    /\ cl[c].op = "upgrade" /\ cl[c].pc = "done" /\ cl[c].result = "error"
    /\ cl[d].op = "upgrade" /\ cl[d].pc = "done" /\ cl[d].result = "forbidden"
    /\ db.spend = <<>>
    /\ db.squads["s1"].unspent_points < 5

\* ---------------------------------------------------------------------------
\* the candidates of the sweep: active players at or above their threshold
Candidate(p) ==
  /\ db0.players[p].career_status = "active"
  /\ db0.players[p].overall_rating >= ListedThreshold(db0.players[p].current_league)

LeagueAbove(league) == IF league = "league_two" THEN "league_one" ELSE "championship"

PlayerInErrors(w, p) ==
  \E i \in 1..Len(sw[w].errors) : sw[w].errors[i].player_id = p

LeagueInErrors(w, league) ==
  \E i \in 1..Len(sw[w].errors) : sw[w].errors[i].league = league

\* C28: if completePlayerCareer throws for one completion candidate during
\* a sweep, the sweep records that player in its errors and still processes
\* every remaining completion candidate and every promotion batch; a failed
\* promotion UPDATE of one target league likewise does not prevent the
\* other target league's batch from being applied. At the end of a sweep
\* every candidate is either dealt with or accounted for in errors.
C28_SweepSurvivesErrors ==
  (sw["w1"].pc = "done" /\ sw["w1"].ran) =>
    \A p \in Players :
      Candidate(p) =>
        IF db0.players[p].current_league = "championship"
        THEN PlayerInErrors("w1", p) # (db.players[p].career_status = "completed")
        ELSE LeagueInErrors("w1", LeagueAbove(db0.players[p].current_league))
               # (db.players[p].current_league = LeagueAbove(db0.players[p].current_league))

\* the completion of the first candidate threw and the second candidate
\* was completed all the same
C28_Witness ==
  /\ sw["w1"].pc = "done"
  /\ sw["w1"].errors = <<[player_id |-> "p1", league |-> ""]>>
  /\ Candidate("p1") /\ Candidate("p2")
  /\ db.players["p1"].career_status = "active"
  /\ db.players["p2"].career_status = "completed"

\* ---------------------------------------------------------------------------
\* the CareerCompletion rows of coach u
CompletionsOf(u) ==
  {i \in 1..Len(db.career_completions) : db.career_completions[i].user_id = u}

DaysOf(i) == db.career_completions[i].days_to_premier

\* a is x / y rounded to the nearest integer, halves upwards
IsRounded(a, x, y) == 2 * a * y <= 2 * x + y /\ 2 * x + y < 2 * (a + 1) * y

StatsMatchCompletions ==
  \A u \in Users :
    (db.coach_stats[u].present /\ db.coach_stats[u].completions_count >= 1) =>
      /\ db.coach_stats[u].completions_count = Cardinality(CompletionsOf(u))
      /\ db.coach_stats[u].total_days_sum = SumOver(CompletionsOf(u), DaysOf)
      /\ \E i \in CompletionsOf(u) :
           /\ db.coach_stats[u].best_days_to_premier = Some(DaysOf(i))
           /\ \A j \in CompletionsOf(u) : DaysOf(i) <= DaysOf(j)
      /\ ~IsNull(db.coach_stats[u].avg_days_to_premier)
      /\ IsRounded(Val(db.coach_stats[u].avg_days_to_premier),
                   db.coach_stats[u].total_days_sum, db.coach_stats[u].completions_count)

BestNeverIncreases ==
  \A u \in Users :
    (db.coach_stats[u].present /\ db.coach_stats[u].completions_count >= 1) =>
      Val(db'.coach_stats[u].best_days_to_premier) <= Val(db.coach_stats[u].best_days_to_premier)

\* C29: after any sequence of career completions, for every coach with
\* completions_count >= 1: completions_count is the number of that coach's
\* CareerCompletion rows, total_days_sum the sum and best_days_to_premier
\* the minimum of their days_to_premier, avg_days_to_premier is
\* total_days_sum / completions_count rounded, and best_days_to_premier
\* never increases from one state to the next.
C29_CoachStatsDerived == []StatsMatchCompletions /\ [][BestNeverIncreases]_vars

\* u1 has completed two careers, in 1 and in 2 days: the average 1.5 is
\* stored as 2
C29_Witness ==
  /\ db.coach_stats["u1"].completions_count = 2
  /\ db.coach_stats["u1"].total_days_sum = 3
  /\ db.coach_stats["u1"].best_days_to_premier = Some(1)
  /\ db.coach_stats["u1"].avg_days_to_premier = Some(2)
  /\ Cardinality(CompletionsOf("u1")) = 2

\* ---------------------------------------------------------------------------
\* the days a completion at completedMs of a career started at startedMs
\* is to record
DaysRule(completedMs, startedMs) ==
  LET whole == (completedMs - startedMs) \div MS_PER_DAY
      up == IF whole * MS_PER_DAY = completedMs - startedMs THEN whole ELSE whole + 1
  IN IF up >= 1 THEN up ELSE 1

\* C30: every career completion records days_to_premier = max(1,
\* ceil((now - career_started_at) / 86400000 ms)); the recorded value is at
\* least 1 for every pair of timestamps, also when now equals
\* career_started_at and when now is earlier.
C30_DaysAtLeastOne ==
  \A i \in 1..Len(db.career_completions) :
    LET row == db.career_completions[i]
        player == db.players[row.player_id]
    IN /\ row.days_to_premier >= 1
       /\ row.days_to_premier
            = DaysRule(Val(player.career_completed_at), player.career_started_at)

\* ---------------------------------------------------------------------------
\* the pairings of the whole season of the 24 clubs
SeasonPairings == [m \in 1..46 |-> getRoundRobinPairings(ClubIds, m)]

\* the meetings of a matchday, without regard to home and away
Meetings(pairings) == {{pairings[k][1], pairings[k][2]} : k \in 1..Len(pairings)}

\* the same of generateFixtures, on the 552 fixtures of a league of 24 clubs
GeneratedDoubleRoundRobin ==
  LET F == DefaultFixtures["championship"]
      half == Len(F) \div 2
  IN /\ Len(F) = 552
     /\ \A f \in 1..Len(F) : F[f].home # F[f].away
     /\ Cardinality({{F[f].home, F[f].away} : f \in 1..half}) = 276
     /\ Cardinality({<<F[f].home, F[f].away>> : f \in 1..Len(F)}) = 552
     /\ \A f \in 1..half :
          /\ F[f].matchday \in 1..23
          /\ F[f + half].matchday = F[f].matchday + 23
          /\ F[f + half].home = F[f].away
          /\ F[f + half].away = F[f].home
     /\ \A m \in 1..46 :
          Cardinality(UNION {{F[f].home, F[f].away} :
                              f \in {g \in 1..Len(F) : F[g].matchday = m}}) = 24

\* C31: for 24 distinct clubs the generator pairs every unordered pair of
\* distinct clubs exactly once over matchdays 1..23, and matchday m + 23
\* holds the pairings of matchday m with home and away swapped, so that over
\* matchdays 1..46 every ordered (home, away) pair of distinct clubs occurs
\* exactly once. Stated on the pairings an invocation has just generated.
C31_DoubleRoundRobin ==
  \A v \in Invokers :
    sim[v].pc = "gen" =>
      LET m == sim[v].matchday
          P == sim[v].pairings
          other == IF m > 23 THEN m - 23 ELSE m + 23
      IN /\ Cardinality(Meetings(P)) = 12
         /\ \A m2 \in (IF m > 23 THEN 24..46 ELSE 1..23) \ {m} :
              Meetings(P) \cap Meetings(SeasonPairings[m2]) = {}
         /\ SeasonPairings[other] = [k \in 1..12 |-> <<P[k][2], P[k][1]>>]
         /\ \A h \in Range(ClubIds) : \A a \in Range(ClubIds) \ {h} :
              Cardinality({<<m2, k>> \in (1..46) \X (1..12) :
                             SeasonPairings[m2][k] = <<h, a>>}) = 1
         /\ GeneratedDoubleRoundRobin

\* the pairings of the last matchday of the first half have been generated
C31_Witness ==
  \E v \in Invokers :
    /\ sim[v].pc = "gen"
    /\ sim[v].matchday = 23
    /\ Cardinality(Meetings(sim[v].pairings)) = 12

\* ---------------------------------------------------------------------------
\* C32: retryWrite invokes a failing write at most 3 times in total: after
\* the third failure in a row it gives up and the write counts as failed; it
\* returns as soon as one attempt succeeds. Stated on the number of times the
\* last fixture result write of an invocation was invoked.
C32_AtMostThreeAttempts ==
  \A v \in Invokers : sim[v].attempts <= 3

\* ---------------------------------------------------------------------------
\* C33: after any sequence of createGroup calls no two groups have the same
\* invite_code: a colliding code is drawn again, and when the draws are used
\* up the call fails without creating a group.
C33_InviteCodesUnique ==
  \A i \in 1..Len(store.groups) : \A j \in 1..Len(store.groups) :
    i # j => store.groups[i].invite_code # store.groups[j].invite_code

\* ---------------------------------------------------------------------------
\* the fixtures of a league that have been played
PlayedOf(k) ==
  {f \in DOMAIN SEASON.leagues[k].fixtures : SEASON.leagues[k].fixtures[f].played}

\* the fixtures of a league scheduled for a matchday
OnMatchday(k, m) ==
  {f \in DOMAIN SEASON.leagues[k].fixtures : SEASON.leagues[k].fixtures[f].matchday = m}

LeaguesInStep ==
  SEASON.initialized =>
    /\ DOMAIN SEASON.leagues = Range(LeagueKeys)
    /\ SEASON.totalMatchdays = 46
    /\ SEASON.currentMatchday \in 0..SEASON.totalMatchdays
    /\ \A k \in DOMAIN SEASON.leagues :
         /\ \A m \in 1..SEASON.totalMatchdays : Cardinality(OnMatchday(k, m)) = 12
         /\ \A f \in DOMAIN SEASON.leagues[k].fixtures :
              /\ SEASON.leagues[k].fixtures[f].matchday \in 1..SEASON.totalMatchdays
              /\ SEASON.leagues[k].fixtures[f].played <=>
                   SEASON.leagues[k].fixtures[f].matchday <= SEASON.currentMatchday

\* a simulate-day call at the last matchday answers success = false and
\* leaves the season as it is
EndOfSeasonStep ==
  \A c \in Callers :
    SimulateMatchday(c) /\ SEASON.initialized /\ SEASON.currentMatchday = 46 =>
      /\ SEASON' = SEASON
      /\ cl'[c].result = "season complete"

\* C34: after any sequence of resetAndSync and simulateMatchday calls the three
\* leagues are at the same matchday: in each league exactly the fixtures with
\* matchday <= currentMatchday are played (12 per matchday), none of a later
\* matchday, currentMatchday never exceeds totalMatchdays (46), and
\* simulateMatchday at matchday 46 returns success = false and changes no
\* fixture and no counter.
C34_LeaguesInStep == []LeaguesInStep /\ [][EndOfSeasonStep]_vars

\* the season has been played to its end and a further simulate-day call has
\* been answered
C34_Witness ==
  /\ SEASON.initialized
  /\ SEASON.currentMatchday = 46
  /\ cl["c1"].op = "simulate-day"
  /\ cl["c1"].result = "season complete"
  /\ \A k \in Range(LeagueKeys) : Cardinality(PlayedOf(k)) = 552

\* ---------------------------------------------------------------------------
\* the height of a league in the pyramid
TierHeight(league) ==
  IF league = "championship" THEN 3 ELSE IF league = "league_one" THEN 2 ELSE 1

\* C35: a sweep never moves a player to a tier lower than the league the
\* player holds when the promotion UPDATE is applied: a league raised by
\* updatePlayerProgress between the Phase 2 snapshot and the Phase 5 batch
\* UPDATE is not overwritten with the target derived from the snapshot.
C35_PromotionNeverLowers ==
  [][\A w \in Sweepers :
       SweepPromote(w) =>
         \A p \in Players :
           TierHeight(db'.players[p].current_league) >=
             TierHeight(db.players[p].current_league)]_vars

\* ---------------------------------------------------------------------------
\* the player qualified for the sweep when the run started and its row has not
\* been touched since
LeftBehind(p) ==
  /\ db0.players[p].career_status = "active"
  /\ Qualifies(db0.players[p])
  /\ db.players[p] = db0.players[p]

\* invocation w, not forced, stamped its day and died before the end; o, not
\* forced, has started on the same UTC day after w was gone
StartedAfterCrash(w, o) ==
  /\ sw[w].pc = "crashed" /\ ~sw[w].force /\ sw[w].shouldRun
  /\ sw[o].pc = "lock" /\ ~sw[o].force /\ ~sw[o].overlapped
  /\ sw[o].today = sw[w].today

\* C36: if a non-forced sweep on a due day commits Phase 1 and then dies
\* before finishing Phases 2-5, a later non-forced invocation on the same UTC
\* day still promotes or completes the players that qualified: every
\* qualifying player is eventually processed (unless that invocation dies
\* too).
C36_CrashedSweepRecovered ==
  \A w \in Sweepers : \A o \in Sweepers \ {w} :
    (StartedAfterCrash(w, o) /\ \E p \in Players : LeftBehind(p))
      ~> (sw[o].pc = "crashed" \/ \A p \in Players : ~LeftBehind(p))

\* ---------------------------------------------------------------------------
\* the played fixtures of a season in which the club is home or away
PlayedFixturesOf(seasonId, cid) ==
  {id \in 1..Len(fixtures) :
     /\ fixtures[id].season_id = seasonId
     /\ IsPlayed(fixtures[id])
     /\ cid \in {fixtures[id].home_club_id, fixtures[id].away_club_id}}

GoalsOr0(g) == IF IsNull(g) THEN 0 ELSE Val(g)

\* C37: after any sequence of simulateDayCore invocations, including ones in
\* which fixture or TeamSeason writes fail and the matchday is later passed by
\* the short-circuit, every TeamSeason row's played count equals the number of
\* played fixtures of that season in which the club is home or away, and its
\* goals_for and goals_against equal the goal sums over those fixtures.
C37_StandingsMatchFixtures ==
  SimQuiescent =>
    \A i \in 1..Len(teamSeasons) :
      LET cid == teamSeasons[i].club_id
          F == PlayedFixturesOf(teamSeasons[i].season_id, cid)
          gf(id) == IF fixtures[id].home_club_id = cid
                    THEN GoalsOr0(fixtures[id].home_goals)
                    ELSE GoalsOr0(fixtures[id].away_goals)
          ga(id) == IF fixtures[id].home_club_id = cid
                    THEN GoalsOr0(fixtures[id].away_goals)
                    ELSE GoalsOr0(fixtures[id].home_goals)
      IN /\ teamSeasons[i].played = Cardinality(F)
         /\ teamSeasons[i].goals_for = SumOver(F, gf)
         /\ teamSeasons[i].goals_against = SumOver(F, ga)

\* ---------------------------------------------------------------------------
\* invocation v was aborted on failed fixture result writes after some but not
\* all of the twelve results of its matchday had been stored
PartialAbort(v) ==
  /\ sim[v].pc = "done" /\ sim[v].outcome = "aborted"
  /\ sim[v].fixFails \in 1..(MATCHES_PER_MD - 1)

\* invocation o met a write that failed
WriteFailedIn(o) ==
  sim[o].fixFails > 0 \/ sim[o].standFails > 0 \/ sim[o].outcome = "error"

\* C38: if an invocation aborts a tier at matchday m because a fixture result
\* write failed after some but not all of the twelve results were persisted,
\* a later invocation in which no write fails completes matchday m and
\* advances the tier's counters to m + 1. Stated on the invocation that
\* follows the aborted one, once it has returned.
C38_PartialAbortRecovers ==
  (PartialAbort("i1") /\ sim["i2"].pc = "done" /\ ~WriteFailedIn("i2")) =>
    /\ progs[1].current_matchday = sim["i1"].matchday + 1
    /\ seasons[1].current_matchday = sim["i1"].matchday + 1

\* ---------------------------------------------------------------------------
\* a join, a join request or a resolution takes a step
JoinerSteps(c) ==
  /\ cl[c].op \in {"join", "request", "resolve"}
  /\ cl'[c] # cl[c]

\* C39: whenever joinOpenSquad, requestJoinSquad on an open squad, or an
\* approved resolveSquadJoinRequest makes a user an active member of a squad,
\* that user's role in the squad is 'member', also when the user belonged to
\* the squad before as leader or co_leader and left.
C39_JoinsAsMember ==
  [][\A c \in Callers :
       JoinerSteps(c) =>
         \A s \in Squads : \A u \in Users :
           (db.members[<<s, u>>].status # "active"
              /\ db'.members[<<s, u>>].status = "active")
             => db'.members[<<s, u>>].role = "member"]_vars

\* ---------------------------------------------------------------------------
ActiveIn(s) == {u \in Users : db.members[<<s, u>>].status = "active"}

\* C40: after any sequence of createSquad, join, resolveSquadJoinRequest,
\* leaveSquad and setMemberRole operations, every squad that has at least one
\* active member has exactly one active member with role 'leader'.
C40_ExactlyOneLeader ==
  \A s \in Squads :
    ActiveIn(s) # {} =>
      Cardinality({u \in ActiveIn(s) : db.members[<<s, u>>].role = "leader"}) = 1

====
